---- MODULE Spec2Model ----
(***************************************************************************)
(* PAL: chunked upload, archive expansion and the processing pipeline      *)
(* (labeling, union-find clustering, bucket merge, round-robin ranking,    *)
(* enhancement) of one job, with process crash and boot-time recovery.     *)
(*                                                                         *)
(* One job is followed from the init frame of its upload session to its    *)
(* terminal status.  The record store is the persisted state (job, media,  *)
(* nBuckets, matches); everything else is memory of the server process     *)
(* and is lost by Crash.  Every await of the source is a step boundary.    *)
(* Calls on the model provider and the blob store may reject where the     *)
(* source does not catch the rejection; record-store calls succeed.        *)
(*                                                                         *)
(* processUpload and processJob are activations (pus, runs): handleChunk   *)
(* starts a processUpload for every frame that finds receivedChunks >=     *)
(* totalChunks, and processJob is started by processUpload and by          *)
(* requeueIncompleteJobs.  Spec has a client that sends the frames it      *)
(* announced; SpecFrames has a client that sends more; SpecConn has a      *)
(* client that sends any chunk indices, frames before its session, and     *)
(* disconnects; SpecBoot is a boot over stored jobs of any status;         *)
(* SpecCancel adds a cancellation request and SpecDelete the DELETE route  *)
(* to Spec.  SpecRank and SpecCluster start from a labeled job with more   *)
(* files: SpecRank runs stages 2 to 4 (a bucket of three images has three  *)
(* matches), SpecCluster runs stage 2 (four Phase A buckets to merge) and   *)
(* SpecOracle runs it with a model provider that answers areSameTake by a  *)
(* fixed relation.  SpecPool is the ranking stage of the hybrid pipeline,  *)
(* whose bucket tasks and match tasks share one p-limit pool; SpecKeys is  *)
(* the loop of processUpload over named archive entries and their blob     *)
(* keys; SpecBracket and SpecBracketLive drive a single-elimination        *)
(* tournament runner round after round.                                    *)
(***************************************************************************)
EXTENDS Integers, Sequences, FiniteSets, TLC

\* ---------------------------------------------------------------- bounds
MaxEntries == 2
MaxCrashes == 1
MaxChunks == 2
MaxExtra == 1
MaxFrameEntries == 1
MaxPayload == 2
MaxOthers == 2
MaxDeletes == 2
MaxRankFiles == 3
MaxClusterFiles == 4
MaxOracleFiles == 3
MaxPoolBuckets == 4
MaxPoolFiles == 2
MaxKeyEntries == 2
MaxNameLen == 3
MaxCompetitors == 4
MaxRounds == 3
MaxRated == 3

\* ------------------------------------------------------ program constants
ELO_K_FACTOR == 32
ELO_INITIAL_SCORE == 1000
TOP_N == 3
TOURNAMENT_CONCURRENCY == 3

VARIABLES
    up,           \* the server process is running
    crashes,      \* crashes so far
    entries,      \* the accepted media entries of the uploaded archive (media types)
    extra,        \* binary frames the client sends beyond the announced totalChunks
    job,          \* the Job record
    media,        \* the MediaFile records, in creation order (id = index)
    nBuckets,     \* number of Bucket records (ids 1..nBuckets)
    matches,      \* the TournamentMatch records
    session,      \* the UploadSession in activeSessions, and the connection's jobId
    tempFile,     \* the scratch archive exists on disk
    pus,          \* the processUpload activations of this process: pc and loop index
    runs,         \* the processJob activations of this process
    client,       \* the binary frames the client sends, in order: chunk index and payload
    scratch,      \* the content of the scratch archive: the payloads written to it
    reply,        \* the last answer of the message handler to a binary frame
    blobs,        \* the objects in the blob store: <<"orig", f>> and <<"enh", f>>
    http,         \* the status codes of the answers to DELETE /api/jobs/:id, in order
    others,       \* the statuses of the further Job records the store holds at boot
    started,      \* the further jobs requeueIncompleteJobs called processJob for
    cancelled,    \* the user has asked to cancel the job
    ranked,       \* the ids of the Buckets whose ranking has stored its final ratings
    oracle,       \* how the model provider answers areSameTake: any answer at any
                  \* call, or a fixed relation on the files
    tp,           \* the tournamentLimit pool of the hybrid pipeline and its tasks
    ks,           \* processUpload's loop over named archive entries: the names, the
                  \* objects stored by key and the MediaFile rows created
    tr            \* a single-elimination tournament runner and the loop driving it

baseVars == <<up, crashes, entries, extra, client, others, started, cancelled, oracle, tp,
              ks, tr>>
envVars == <<baseVars, ranked>>
outVars == <<reply, blobs, http>>
dbVars == <<job, media, nBuckets, matches>>
upVars == <<session, tempFile, scratch, pus>>
vars == <<up, crashes, entries, extra, job, media, nBuckets, matches, session, tempFile,
          pus, runs, client, scratch, reply, blobs, http, others, started, cancelled,
          ranked, oracle, tp, ks, tr>>

\* ------------------------------------------------------------ data model
MediaTypes == {"image", "video"}

\* the status progression: the upload stages, then processJob's `stages` array
StageOrder == <<"uploading", "extracting", "labeling", "clustering", "merging",
                "ranking", "enhancing", "completed">>

Terminal == {"completed", "failed"}

NoJob == [status |-> "none", processedFiles |-> 0, totalFiles |-> 0, error |-> "none"]

\* prisma.mediaFile.create of processUpload; eloScore in hundredths of a point
NewMedia(t) == [mtype |-> t, labeled |-> FALSE, bucketId |-> 0, isTopPick |-> FALSE,
                eloScore |-> ELO_INITIAL_SCORE * 100, enhanced |-> FALSE]

\* a connection without a session: `open` is the socket, `bound` its state.jobId,
\* `active` the entry in activeSessions
NoSession == [open |-> TRUE, active |-> FALSE, received |-> 0, total |-> 0,
              bound |-> FALSE]

NoReply == [type |-> "none"]

\* the binary frames a client can send: the 4-byte chunk index and the payload
Frames == [index : 0..MaxChunks, payload : 1..MaxPayload]

\* the frames of a client that numbers its chunks in order
OrderedClient == [k \in 1..(MaxChunks + MaxExtra) |->
                    [index |-> k - 1, payload |-> ((k - 1) % MaxPayload) + 1]]

\* the statuses a stored Job record can have
StoredStatuses == {"uploading", "extracting", "labeling", "clustering", "merging",
                   "ranking", "enhancing", "completed", "failed"}

IdleRk == [buckets |-> <<>>, elo |-> <<>>, pending |-> {}, marks |-> <<>>, failed |-> {}]

\* no tournament runner has been created
NoRunner == [comp |-> <<>>, round |-> 0, matchups |-> <<>>, pending |-> {}, rated |-> 0,
             pc |-> "idle"]

\* no named archive is being stored
NoKeys == [names |-> <<>>, i |-> 0, pc |-> "idle", objs |-> {}, rows |-> <<>>]

\* the tournamentLimit pool before the ranking stage of the hybrid pipeline
IdlePool == [status |-> "idle", bk |-> <<>>, queue |-> <<>>, active |-> 0]

\* a model provider whose areSameTake answers are not tied to a relation
FreeOracle == [fixed |-> FALSE, rel |-> {}]

\* the answer of areSameTake(a, b) under a fixed relation
Answer(a, b) == IF <<a, b>> \in oracle.rel THEN "same" ELSE "different"

\* no Phase A race recorded
NoRace == [file |-> 0, replies |-> <<>>, order |-> <<>>]

\* no Phase B merge recorded
NoMerge == [buckets |-> <<>>, same |-> {}]

\* a processJob activation at its first statement
NewRun == [pc |-> "start", curStatus |-> "none", n |-> 0, lc |-> 0, ci |-> 0, pk |-> 0,
           cur |-> 0, rb |-> 0, err |-> "none", wk |-> <<>>, tb |-> <<>>, rk |-> IdleRk,
           df |-> {}, lr |-> NoRace, mg |-> NoMerge]

SeqSet(s) == {s[i] : i \in 1..Len(s)}

Images(ids) == SelectSeq(ids, LAMBDA f : media[f].mtype = "image")

InitStore ==
    /\ crashes = 0
    /\ job = NoJob
    /\ media = <<>>
    /\ nBuckets = 0
    /\ matches = {}
    /\ session = NoSession
    /\ tempFile = FALSE
    /\ pus = <<>>
    /\ runs = <<>>
    /\ scratch = <<>>
    /\ reply = NoReply
    /\ blobs = {}
    /\ http = <<>>
    /\ started = <<>>
    /\ cancelled = FALSE
    /\ ranked = {}
    /\ oracle = FreeOracle

InitBase == InitStore /\ tp = IdlePool /\ ks = NoKeys /\ tr = NoRunner

\* the client sends exactly the totalChunks binary frames it announced
Init ==
    /\ InitBase
    /\ up = TRUE
    /\ entries \in UNION {[1..n -> MediaTypes] : n \in 0..MaxEntries}
    /\ extra = 0
    /\ client = OrderedClient
    /\ others = <<>>

\* the client sends binary frames beyond the totalChunks it announced
InitFrames ==
    /\ InitBase
    /\ up = TRUE
    /\ entries \in UNION {[1..n -> MediaTypes] : n \in 0..MaxFrameEntries}
    /\ extra \in 1..MaxExtra
    /\ client = OrderedClient
    /\ others = <<>>

\* the process is about to boot over a record store that holds jobs left in any
\* status by earlier processes
InitBoot ==
    /\ InitBase
    /\ up = FALSE
    /\ entries = <<>>
    /\ extra = 0
    /\ client = OrderedClient
    /\ others \in UNION {[1..n -> StoredStatuses] : n \in 0..MaxOthers}

\* the state in which the labeling workers of the first run have all returned: a
\* one-chunk archive of up to maxFiles files is uploaded and extracted, every file
\* has its label, and the run is about to write 'clustering'
InitLabeled(maxFiles, oracles) ==
    /\ up = TRUE
    /\ crashes = 0
    /\ entries \in UNION {[1..n -> MediaTypes] : n \in 1..maxFiles}
    /\ extra = 0
    /\ client = OrderedClient
    /\ others = <<>>
    /\ started = <<>>
    /\ cancelled = FALSE
    /\ ranked = {}
    /\ oracle \in oracles
    /\ tp = IdlePool
    /\ ks = NoKeys
    /\ tr = NoRunner
    /\ job = [status |-> "labeling", processedFiles |-> Len(entries),
              totalFiles |-> Len(entries), error |-> "none"]
    /\ media = [f \in 1..Len(entries) |-> [NewMedia(entries[f]) EXCEPT !.labeled = TRUE]]
    /\ nBuckets = 0
    /\ matches = {}
    /\ session = [NoSession EXCEPT !.bound = TRUE, !.received = 1, !.total = 1]
    /\ tempFile = FALSE
    /\ scratch = <<>>
    /\ pus = <<[pc |-> "done", i |-> Len(entries) + 1]>>
    /\ runs = <<[NewRun EXCEPT !.pc = "wClustering", !.curStatus = "extracting",
                               !.n = Len(entries), !.lc = Len(entries)]>>
    /\ reply = [type |-> "chunk_ack", chunkIndex |-> 0, received |-> 1]
    /\ blobs = {<<"orig", f>> : f \in 1..Len(entries)}
    /\ http = <<>>

\* a labeled job of up to MaxRankFiles files
InitRank == InitLabeled(MaxRankFiles, {FreeOracle})

\* a labeled job of up to MaxClusterFiles files
InitCluster == InitLabeled(MaxClusterFiles, {FreeOracle})

\* a labeled job of up to MaxOracleFiles files and a model provider that answers
\* areSameTake(a, b) by one fixed relation on the files, any relation
InitOracle ==
    InitLabeled(MaxOracleFiles,
                {[fixed |-> TRUE, rel |-> R] :
                    R \in SUBSET {p \in (1..MaxOracleFiles) \X (1..MaxOracleFiles) :
                                    p[1] # p[2]}})

\* ------------------------------------------------------ upload assembler
\* a client that may send any chunk indices and payloads, and may disconnect
InitConn ==
    /\ InitBase
    /\ up = TRUE
    /\ entries \in UNION {[1..n -> MediaTypes] : n \in 0..MaxFrameEntries}
    /\ extra = 0
    /\ client \in [1..MaxChunks -> Frames]
    /\ others = <<>>

\* a handler without the state.jobId test: the frame goes on to handleChunk, which
\* finds no session and answers 'Invalid session'
FrameInvalidSession ==
    /\ up /\ session.open /\ ~session.bound
    /\ reply' = [type |-> "error", message |-> "Invalid session"]
    /\ UNCHANGED <<envVars, blobs, http, dbVars, upVars, runs>>

\* ws.on('message') binary branch on a connection whose state.jobId is not set: the
\* error reply and return
FrameNoSession ==
    /\ up /\ session.open /\ ~session.bound
    /\ reply' = [type |-> "error", message |-> "No active upload session"]
    /\ UNCHANGED <<envVars, blobs, http, dbVars, upVars, runs>>

\* ws.on('message') text branch: initUploadSession up to its return (job.create,
\* createWriteStream, activeSessions.set)
InitUploadSession(totalChunks) ==
    /\ up /\ session.open /\ job.status = "none"
    /\ job' = [status |-> "uploading", processedFiles |-> 0, totalFiles |-> 0,
               error |-> "none"]
    /\ session' = [open |-> TRUE, active |-> TRUE, received |-> 0, total |-> totalChunks,
                   bound |-> FALSE]
    /\ tempFile' = TRUE
    /\ scratch' = <<>>
    /\ UNCHANGED <<envVars, outVars, media, nBuckets, matches, pus, runs>>

\* ws.on('message') text branch after the await: state.jobId = jobId
BindSession ==
    /\ up /\ session.active /\ ~session.bound
    /\ session' = [session EXCEPT !.bound = TRUE]
    /\ UNCHANGED <<envVars, outVars, dbVars, tempFile, scratch, pus, runs>>

\* a close handler that also marks the job failed
DisconnectFailsJob ==
    /\ up /\ session.open
    /\ session' = [session EXCEPT !.open = FALSE, !.active = FALSE]
    /\ job' = IF session.bound /\ session.active
                 THEN [job EXCEPT !.status = "failed", !.error = "disconnected"] ELSE job
    /\ tempFile' = FALSE
    /\ scratch' = <<>>
    /\ UNCHANGED <<envVars, outVars, media, nBuckets, matches, pus, runs>>

\* ws.on('close'): cleanupSession when state.jobId is set (fileStream.end, unlinkSync,
\* activeSessions.delete when the session is still registered), connections.delete
Disconnect ==
    /\ up /\ session.open
    /\ IF session.bound /\ session.active
          THEN /\ session' = [session EXCEPT !.open = FALSE, !.active = FALSE]
               /\ tempFile' = FALSE
               /\ scratch' = <<>>
          ELSE /\ session' = [session EXCEPT !.open = FALSE]
               /\ UNCHANGED <<tempFile, scratch>>
    /\ UNCHANGED <<envVars, outVars, dbVars, pus, runs>>

\* the client has frames left to send: the announced ones and `extra` more
ClientHasFrame == session.received < session.total + extra

\* the frame the client sends next
NextFrame == client[session.received + 1]

\* a handler that stores each payload at the place its chunk index names
HandleChunkAtIndex ==
    /\ up /\ session.open /\ session.bound /\ session.active
    /\ ClientHasFrame
    /\ scratch' = IF session.received < session.total
                     THEN LET at == NextFrame.index + 1
                              n == IF at > Len(scratch) THEN at ELSE Len(scratch)
                          IN [i \in 1..n |-> IF i = at THEN NextFrame.payload
                                             ELSE IF i <= Len(scratch) THEN scratch[i]
                                             ELSE 0]
                     ELSE scratch
    /\ session' = [session EXCEPT !.received = @ + 1]
    /\ reply' = [type |-> "chunk_ack", chunkIndex |-> NextFrame.index,
                 received |-> session.received + 1]
    /\ pus' = IF session.received + 1 >= session.total
                 THEN Append(pus, [pc |-> "status", i |-> 0]) ELSE pus
    /\ UNCHANGED <<envVars, blobs, http, dbVars, tempFile, runs>>

\* ws.on('message') binary branch with handleChunk: fileStream.write(chunkData) (a
\* write after fileStream.end() stores nothing), receivedChunks++, chunk_ack, and
\* processUpload is called when receivedChunks >= totalChunks
HandleChunk ==
    /\ up /\ session.open /\ session.bound /\ session.active
    /\ ClientHasFrame
    /\ scratch' = IF session.received < session.total
                     THEN Append(scratch, NextFrame.payload) ELSE scratch
    /\ session' = [session EXCEPT !.received = @ + 1]
    /\ reply' = [type |-> "chunk_ack", chunkIndex |-> NextFrame.index,
                 received |-> session.received + 1]
    /\ pus' = IF session.received + 1 >= session.total
                 THEN Append(pus, [pc |-> "status", i |-> 0]) ELSE pus
    /\ UNCHANGED <<envVars, blobs, http, dbVars, tempFile, runs>>

\* updateJobStatus as processUpload uses it
UpdateJobStatus(j, status, error) == [j EXCEPT !.status = status, !.error = error]

\* processUpload: updateJobStatus(jobId, 'extracting')
PuStatus(a) ==
    /\ up /\ a \in 1..Len(pus) /\ pus[a].pc = "status"
    /\ job' = UpdateJobStatus(job, "extracting", job.error)
    /\ pus' = [pus EXCEPT ![a].pc = "open"]
    /\ UNCHANGED <<envVars, outVars, media, nBuckets, matches, session, tempFile, scratch, runs>>

\* processUpload: new AdmZip(tempPath) (the stream's end() is not awaited, and the
\* archive is the client's: opening may throw), getEntries, filter; then the
\* totalFiles write
PuOpen(a) ==
    /\ up /\ a \in 1..Len(pus) /\ pus[a].pc = "open"
    /\ \/ /\ tempFile
          /\ job' = [job EXCEPT !.totalFiles = Len(entries)]
          /\ pus' = [pus EXCEPT ![a] = [pc |-> "loop", i |-> 1]]
       \/ /\ job' = job
          /\ pus' = [pus EXCEPT ![a].pc = "catch"]
    /\ UNCHANGED <<envVars, outVars, media, nBuckets, matches, session, tempFile, scratch, runs>>

\* processUpload: one round of the loop: uploadToS3 (may reject), then
\* prisma.mediaFile.create
PuEntry(a) ==
    /\ up /\ a \in 1..Len(pus) /\ pus[a].pc = "loop" /\ pus[a].i <= Len(entries)
    /\ \/ /\ media' = Append(media, NewMedia(entries[pus[a].i]))
          /\ blobs' = blobs \cup {<<"orig", Len(media) + 1>>}
          /\ pus' = [pus EXCEPT ![a].i = @ + 1]
       \/ /\ media' = media
          /\ blobs' = blobs
          /\ pus' = [pus EXCEPT ![a].pc = "catch"]
    /\ UNCHANGED <<envVars, reply, http, job, nBuckets, matches, session, tempFile, scratch, runs>>

\* processUpload: unlinkSync, activeSessions.delete, processJob started in background
PuFinish(a) ==
    /\ up /\ a \in 1..Len(pus) /\ pus[a].pc = "loop" /\ pus[a].i > Len(entries)
    /\ tempFile' = FALSE
    /\ scratch' = <<>>
    /\ session' = [session EXCEPT !.active = FALSE]
    /\ pus' = [pus EXCEPT ![a].pc = "done"]
    /\ runs' = Append(runs, NewRun)
    /\ UNCHANGED <<envVars, outVars, dbVars>>

\* processUpload: catch: updateJobStatus(jobId, 'failed', message), activeSessions.delete
PuCatch(a) ==
    /\ up /\ a \in 1..Len(pus) /\ pus[a].pc = "catch"
    /\ job' = UpdateJobStatus(job, "failed", "extract")
    /\ session' = [session EXCEPT !.active = FALSE]
    /\ pus' = [pus EXCEPT ![a].pc = "done"]
    /\ UNCHANGED <<envVars, outVars, media, nBuckets, matches, tempFile, scratch, runs>>

\* ------------------------------------------------------------- processJob
\* processJob's `stages` array
Stages == <<"labeling", "clustering", "merging", "ranking", "enhancing", "completed",
            "failed">>

\* stages.indexOf(status): -1 when absent
StageIndex(s) == IF \E i \in 1..Len(Stages) : Stages[i] = s
                    THEN (CHOOSE i \in 1..Len(Stages) : Stages[i] = s) - 1
                    ELSE -1

\* shouldRunStage(stageName) for a run that read currentStatus
ShouldRunStage(stageName, currentStatus) ==
    /\ StageIndex(currentStatus) <= StageIndex(stageName)
    /\ currentStatus # "completed"
    /\ currentStatus # "failed"

\* a progress write that sends processedFiles alone and leaves totalFiles as stored
UpdateProgressCurrentOnly(j, current, total) == [j EXCEPT !.processedFiles = current]

\* updateProgress: one write of processedFiles and totalFiles
UpdateProgress(j, current, total) ==
    [j EXCEPT !.processedFiles = current, !.totalFiles = total]

\* a stage's status write: data {status, processedFiles: 0}
StageWrite(j, status) == [j EXCEPT !.status = status, !.processedFiles = 0]

\* imageFiles and videoFiles of run x: the files of its snapshot, by media type
ImageIds(x) == Images([f \in 1..x.n |-> f])
VideoIds(x) == SelectSeq([f \in 1..x.n |-> f], LAMBDA f : media[f].mtype = "video")

\* the main flow of run x throws: control passes to its catch block
Throw(x, msg) == [x EXCEPT !.pc = "catch", !.err = msg]

\* prisma.job.findUnique: the run reads the job's status
RunStart(r) ==
    /\ up /\ r \in 1..Len(runs) /\ runs[r].pc = "start"
    /\ runs' = [runs EXCEPT ![r].pc = "media", ![r].curStatus = job.status]
    /\ UNCHANGED <<envVars, outVars, dbVars, upVars>>

\* a run that goes on to the labeling branch without the empty check
RunMediaNoCheck(r) ==
    /\ up /\ r \in 1..Len(runs) /\ runs[r].pc = "media"
    /\ LET x == runs[r] IN
       runs' = [runs EXCEPT ![r] =
                  [x EXCEPT !.n = Len(media),
                            !.wk = [f \in 1..Len(media) |->
                                      [pc |-> "idle", val |-> 0, had |-> media[f].labeled]],
                            !.pc = IF ShouldRunStage("labeling", x.curStatus)
                                      THEN "wLabeling" ELSE "load"]]
    /\ UNCHANGED <<envVars, outVars, dbVars, upVars>>

\* prisma.mediaFile.findMany, the empty check and the choice of the labeling branch
RunMedia(r) ==
    /\ up /\ r \in 1..Len(runs) /\ runs[r].pc = "media"
    /\ LET x == runs[r] IN
       runs' = [runs EXCEPT ![r] =
          IF Len(media) = 0
             THEN Throw(x, "No media files found")
             ELSE [x EXCEPT !.n = Len(media),
                            !.wk = [f \in 1..Len(media) |->
                                      [pc |-> "idle", val |-> 0, had |-> media[f].labeled]],
                            !.pc = IF ShouldRunStage("labeling", x.curStatus)
                                      THEN "wLabeling" ELSE "load"]]
    /\ UNCHANGED <<envVars, outVars, dbVars, upVars>>

\* stage 1 entry: data {status: 'labeling', totalFiles, processedFiles: 0}
WriteLabeling(r) ==
    /\ up /\ r \in 1..Len(runs) /\ runs[r].pc = "wLabeling"
    /\ job' = [job EXCEPT !.status = "labeling", !.totalFiles = runs[r].n,
                          !.processedFiles = 0]
    /\ runs' = [runs EXCEPT ![r].pc = "pLabeling"]
    /\ UNCHANGED <<envVars, outVars, media, nBuckets, matches, upVars>>

\* updateProgress('labeling', 0, n), then every labelLimit worker is started
StartLabeling(r) ==
    /\ up /\ r \in 1..Len(runs) /\ runs[r].pc = "pLabeling"
    /\ job' = UpdateProgress(job, 0, runs[r].n)
    /\ runs' = [runs EXCEPT ![r].pc = "labeling",
                            ![r].wk = [f \in 1..Len(@) |-> [@[f] EXCEPT !.pc = "download"]]]
    /\ UNCHANGED <<envVars, outVars, media, nBuckets, matches, upVars>>

\* worker f of run x rejects, which rejects Promise.all: the main flow, if it still
\* waits for the workers, throws
WorkerThrows(x, f, msg) ==
    LET y == [x EXCEPT !.wk[f].pc = "failed"]
    IN IF x.pc = "labeling" THEN Throw(y, msg) ELSE y

\* worker f of run x issues updateProgress('labeling', labeledCount, n, filename)
IssueProgress(x, f) == [x EXCEPT !.wk[f].pc = "progress", !.wk[f].val = x.lc]

\* a worker without the `if (!label)` test: every file is described
NeedsLabelAlways(w) == TRUE

\* `if (!label)`: the worker calls describe only for a file without a label
NeedsLabel(w) == ~w.had

\* labeling worker: downloadFromS3 (may reject); an already labeled file goes on to its
\* progress write
WorkerDownload(r, f) ==
    /\ up /\ r \in 1..Len(runs) /\ f \in 1..Len(runs[r].wk)
    /\ runs[r].wk[f].pc = "download"
    /\ LET x == runs[r] IN
       \/ runs' = [runs EXCEPT ![r] = IF NeedsLabel(x.wk[f])
                                         THEN [x EXCEPT !.wk[f].pc = "describe"]
                                         ELSE IssueProgress(x, f)]
       \/ runs' = [runs EXCEPT ![r] = WorkerThrows(x, f, "download")]
    /\ UNCHANGED <<envVars, outVars, dbVars, upVars>>

\* a labeling worker whose describe call returns the fixed label on every failure,
\* for an image as for a video
WorkerDescribeFallback(r, f) ==
    /\ up /\ r \in 1..Len(runs) /\ f \in 1..Len(runs[r].wk)
    /\ runs[r].wk[f].pc = "describe"
    /\ \/ runs' = [runs EXCEPT ![r].wk[f].pc = "label"]
       \/ runs' = [runs EXCEPT ![r].wk[f].pc = "label", ![r].df = @ \cup {f}]
    /\ UNCHANGED <<envVars, outVars, dbVars, upVars>>

\* labeling worker: the model call answers, or it fails (df records the file);
\* generateImageLabel then rejects, generateVideoLabel catches and returns the
\* fixed label 'Video content requiring manual review', which is written like
\* any other label
WorkerDescribe(r, f) ==
    /\ up /\ r \in 1..Len(runs) /\ f \in 1..Len(runs[r].wk)
    /\ runs[r].wk[f].pc = "describe"
    /\ LET x == [runs[r] EXCEPT !.df = @ \cup {f}] IN
       \/ runs' = [runs EXCEPT ![r].wk[f].pc = "label"]
       \/ /\ media[f].mtype = "image"
          /\ runs' = [runs EXCEPT ![r] = WorkerThrows(x, f, "describe")]
       \/ /\ media[f].mtype = "video"
          /\ runs' = [runs EXCEPT ![r] = [x EXCEPT !.wk[f].pc = "label"]]
    /\ UNCHANGED <<envVars, outVars, dbVars, upVars>>

\* labeling worker: prisma.mediaFile.update({label}), labeledCount++, progress issued
WorkerLabel(r, f) ==
    /\ up /\ r \in 1..Len(runs) /\ f \in 1..Len(runs[r].wk)
    /\ runs[r].wk[f].pc = "label"
    /\ media' = [media EXCEPT ![f].labeled = TRUE]
    /\ runs' = [runs EXCEPT ![r] = IssueProgress([runs[r] EXCEPT !.lc = @ + 1], f)]
    /\ UNCHANGED <<envVars, outVars, job, nBuckets, matches, upVars>>

\* labeling worker: its progress write reaches the record store; the worker returns
WorkerProgress(r, f) ==
    /\ up /\ r \in 1..Len(runs) /\ f \in 1..Len(runs[r].wk)
    /\ runs[r].wk[f].pc = "progress"
    /\ job' = UpdateProgress(job, runs[r].wk[f].val, runs[r].n)
    /\ runs' = [runs EXCEPT ![r].wk[f].pc = "done"]
    /\ UNCHANGED <<envVars, outVars, media, nBuckets, matches, upVars>>

\* Promise.all of the labeling workers resolves
LabelingDone(r) ==
    /\ up /\ r \in 1..Len(runs) /\ runs[r].pc = "labeling"
    /\ \A f \in 1..Len(runs[r].wk) : runs[r].wk[f].pc = "done"
    /\ runs' = [runs EXCEPT ![r].pc = "wClustering", ![r].wk = <<>>]
    /\ UNCHANGED <<envVars, outVars, dbVars, upVars>>

\* labeling skipped: the stored files are downloaded again (Promise.all; may reject)
LoadExisting(r) ==
    /\ up /\ r \in 1..Len(runs) /\ runs[r].pc = "load"
    /\ LET x == [runs[r] EXCEPT !.wk = <<>>] IN
       \/ runs' = [runs EXCEPT ![r] = [x EXCEPT !.pc = "wClustering"]]
       \/ runs' = [runs EXCEPT ![r] = Throw(x, "download")]
    /\ UNCHANGED <<envVars, outVars, dbVars, upVars>>

\* a catch block that records the message and leaves the status as it is
FailedWriteErrorOnly(j, msg) == [j EXCEPT !.error = msg]

\* the data of the catch block's write: {status: 'failed', error: message}
FailedWrite(j, msg) == [j EXCEPT !.status = "failed", !.error = msg]

\* a catch block that only logs and rethrows, without the write to the Job record
CatchFailNoWrite(r) ==
    /\ up /\ r \in 1..Len(runs) /\ runs[r].pc = "catch"
    /\ job' = job
    /\ runs' = [runs EXCEPT ![r].pc = "done"]
    /\ UNCHANGED <<envVars, outVars, media, nBuckets, matches, upVars>>

\* catch block: prisma.job.update(failed); the error is rethrown to the caller
CatchFail(r) ==
    /\ up /\ r \in 1..Len(runs) /\ runs[r].pc = "catch"
    /\ job' = FailedWrite(job, runs[r].err)
    /\ runs' = [runs EXCEPT ![r].pc = "done"]
    /\ UNCHANGED <<envVars, outVars, media, nBuckets, matches, upVars>>

\* ------------------------------------------------ stage 2: union-find clustering
\* stage 2 entry: data {status: 'clustering', processedFiles: 0}, whatever the status
\* the run started from
WriteClustering(r) ==
    /\ up /\ r \in 1..Len(runs) /\ runs[r].pc = "wClustering"
    /\ job' = StageWrite(job, "clustering")
    /\ runs' = [runs EXCEPT ![r].pc = "pClustering"]
    /\ UNCHANGED <<envVars, outVars, media, nBuckets, matches, upVars>>

\* updateProgress('clustering', 0, filesWithData.length); tempBuckets = []
StartClustering(r) ==
    /\ up /\ r \in 1..Len(runs) /\ runs[r].pc = "pClustering"
    /\ job' = UpdateProgress(job, 0, runs[r].n)
    /\ runs' = [runs EXCEPT ![r].pc = "phaseA", ![r].tb = <<>>]
    /\ UNCHANGED <<envVars, outVars, media, nBuckets, matches, upVars>>

\* what one comparison task of Phase A settles with: areSameTake answers SAME or
\* DIFFERENT (a failing model call is caught there and counts as DIFFERENT), or
\* the task rejects
Replies == {"same", "different", "error"}

\* the orders in which n replies can arrive
Orders(n) == {o \in [1..n -> 1..n] : \A i, j \in 1..n : o[i] = o[j] => i = j}

\* raceToFirstMatch before any reply
NoRaceState == [completed |-> 0, resolved |-> FALSE, settled |-> FALSE, value |-> 0]

\* resolve(v): a promise settles once, later calls change nothing
Resolve(st, v) == IF st.settled THEN st ELSE [st EXCEPT !.settled = TRUE, !.value = v]

\* the .then / .catch handlers of raceToFirstMatch for the reply of comparison k, n
\* comparisons in all; resolve(null) is value 0
RaceReply(st, k, answer, n) ==
    IF answer = "error"
       THEN LET c == [st EXCEPT !.completed = @ + 1]
            IN IF ~c.resolved /\ c.completed = n THEN Resolve(c, 0) ELSE c
    ELSE IF st.resolved THEN st
    ELSE IF answer = "same" THEN Resolve([st EXCEPT !.resolved = TRUE], k)
    ELSE LET c == [st EXCEPT !.completed = @ + 1]
         IN IF c.completed = n THEN Resolve(c, 0) ELSE c

\* the handlers run for the replies in their order of arrival, the late ones too
RECURSIVE RaceSteps(_, _, _, _)
RaceSteps(st, replies, order, i) ==
    IF i > Len(replies) THEN st
    ELSE RaceSteps(RaceReply(st, order[i], replies[order[i]], Len(replies)),
                   replies, order, i + 1)

\* a race that waits for every reply and takes the lowest bucket that answered SAME
RaceToLowestMatch(replies, order) ==
    IF \E k \in 1..Len(replies) : replies[k] = "same"
       THEN CHOOSE k \in 1..Len(replies) :
               /\ replies[k] = "same"
               /\ \A j \in 1..(k - 1) : replies[j] # "same"
       ELSE 0

\* a race that settles with the first reply to arrive, whatever it says
RaceToFirstReply(replies, order) ==
    IF Len(replies) = 0 THEN 0 ELSE order[1]

\* raceToFirstMatch(comparisons, r => r.isSame): the bucket index the promise
\* settles with, 0 for null
RaceToFirstMatch(replies, order) ==
    IF Len(replies) = 0 THEN 0
    ELSE RaceSteps(NoRaceState, replies, order, 1).value

\* Phase A, one image: the comparisons with every representative are raced (their
\* replies and the order of arrival are the model provider's choice; lr records
\* them), the image joins the matched bucket or starts a new one, then
\* updateProgress('clustering', i + 1, imageFiles.length)
PhaseA(r) ==
    /\ up /\ r \in 1..Len(runs) /\ runs[r].pc = "phaseA"
    /\ runs[r].ci < Len(ImageIds(runs[r]))
    /\ LET x == runs[r]
           file == ImageIds(x)[x.ci + 1]
       IN /\ \E replies \in [1..Len(x.tb) -> Replies], order \in Orders(Len(x.tb)) :
                LET k == RaceToFirstMatch(replies, order)
                IN /\ oracle.fixed
                        => \A b \in 1..Len(x.tb) : replies[b] = Answer(file, x.tb[b].rep)
                   /\ runs' = [runs EXCEPT
                        ![r].ci = @ + 1,
                        ![r].lr = [file |-> file, replies |-> replies, order |-> order],
                        ![r].tb = IF k = 0
                                     THEN Append(@, [rep |-> file, files |-> <<file>>])
                                     ELSE [@ EXCEPT ![k].files = Append(@, file)]]
          /\ job' = UpdateProgress(job, x.ci + 1, Len(ImageIds(x)))
    /\ UNCHANGED <<envVars, outVars, media, nBuckets, matches, upVars>>

\* updateProgress('merging', 0, tempBuckets.length): Job.status is not written
StartMerging(r) ==
    /\ up /\ r \in 1..Len(runs) /\ runs[r].pc = "phaseA"
    /\ runs[r].ci = Len(ImageIds(runs[r]))
    /\ job' = UpdateProgress(job, 0, Len(runs[r].tb))
    /\ runs' = [runs EXCEPT ![r].pc = "merge", ![r].lr = NoRace]
    /\ UNCHANGED <<envVars, outVars, media, nBuckets, matches, upVars>>

\* find with path compression: the parent array after find(x)
RECURSIVE FindP(_, _)
FindP(parent, x) ==
    IF parent[x] = x THEN parent
    ELSE LET p1 == FindP(parent, parent[x])
         IN [p1 EXCEPT ![x] = p1[parent[x]]]

\* find(x): the root of x
Find(parent, x) == FindP(parent, x)[x]

\* a union that links y to x directly, without finding the roots
UnionNoFind(uf, x, y) ==
    [parent |-> [uf.parent EXCEPT ![y] = x], rank |-> uf.rank]

\* union(x, y) by rank
Union(uf, x, y) ==
    LET p1 == FindP(uf.parent, x)
        rootX == p1[x]
        p2 == FindP(p1, y)
        rootY == p2[y]
    IN IF rootX = rootY THEN [parent |-> p2, rank |-> uf.rank]
       ELSE IF uf.rank[rootX] < uf.rank[rootY]
               THEN [parent |-> [p2 EXCEPT ![rootX] = rootY], rank |-> uf.rank]
       ELSE IF uf.rank[rootX] > uf.rank[rootY]
               THEN [parent |-> [p2 EXCEPT ![rootY] = rootX], rank |-> uf.rank]
       ELSE [parent |-> [p2 EXCEPT ![rootY] = rootX],
             rank |-> [uf.rank EXCEPT ![rootX] = @ + 1]]

\* a pair list built with j from 0: every ordered pair of two distinct indices
BucketPairsOrdered(n) == {p \in (1..n) \X (1..n) : p[1] # p[2]}

\* bucketPairs, and the match pairs of a bucket: every i < j
BucketPairs(n) == {p \in (1..n) \X (1..n) : p[1] < p[2]}

\* the loop over mergeResults, in bucketPairs order: union(i, j) for every same pair
RECURSIVE UnionAll(_, _, _, _, _)
UnionAll(uf, i, j, n, same) ==
    IF i > n THEN uf
    ELSE IF j > n THEN UnionAll(uf, i + 1, i + 2, n, same)
    ELSE UnionAll(IF <<i, j>> \in same THEN Union(uf, i, j) ELSE uf, i, j + 1, n, same)

RECURSIVE ConcatFiles(_, _, _, _)
ConcatFiles(buckets, parent, root, i) ==
    IF i > Len(buckets) THEN <<>>
    ELSE (IF Find(parent, i) = root THEN buckets[i].files ELSE <<>>)
         \o ConcatFiles(buckets, parent, root, i + 1)

\* mergedBuckets in Map insertion order: one bucket per root, in the order the roots
\* are first met; representative of tempBuckets[root], files of every member bucket
MergedBuckets(buckets, parent) ==
    LET n == Len(buckets)
        firsts == SelectSeq([i \in 1..n |-> i],
                            LAMBDA i : \A k \in 1..(i - 1) : Find(parent, k) # Find(parent, i))
    IN [m \in 1..Len(firsts) |->
          [rep |-> buckets[Find(parent, firsts[m])].rep,
           files |-> ConcatFiles(buckets, parent, Find(parent, firsts[m]), 1)]]

\* the final buckets for the replies `same` (the pairs answered SAME) of Phase B
FinalBuckets(buckets, same) ==
    LET n == Len(buckets)
        uf == UnionAll([parent |-> [i \in 1..n |-> i], rank |-> [i \in 1..n |-> 0]],
                       1, 2, n, same)
    IN MergedBuckets(buckets, uf.parent)

\* Phase B: every pair of representatives is compared, the unions are applied, the
\* buckets are grouped by root, and updateProgress('merging', n, n) is written; mg
\* keeps tempBuckets and the pairs answered SAME while stage 2 lasts
Merge(r) ==
    /\ up /\ r \in 1..Len(runs) /\ runs[r].pc = "merge"
    /\ \E same \in SUBSET BucketPairs(Len(runs[r].tb)) :
          /\ oracle.fixed
               => same = {p \in BucketPairs(Len(runs[r].tb)) :
                            Answer(runs[r].tb[p[1]].rep, runs[r].tb[p[2]].rep) = "same"}
          /\ runs' = [runs EXCEPT ![r].pc = "persist",
                                  ![r].mg = [buckets |-> runs[r].tb, same |-> same],
                                  ![r].tb = FinalBuckets(@, same)]
    /\ job' = UpdateProgress(job, Len(runs[r].tb), Len(runs[r].tb))
    /\ UNCHANGED <<envVars, outVars, media, nBuckets, matches, upVars>>

\* the member lists to persist: the final image buckets, then one bucket of all videos
PersistList(x) == [k \in 1..Len(x.tb) |-> x.tb[k].files]
                  \o (IF Len(VideoIds(x)) > 0 THEN <<VideoIds(x)>> ELSE <<>>)

\* generateClusterName (called when a member has a label; may reject), then
\* prisma.bucket.create
PersistCreate(r) ==
    /\ up /\ r \in 1..Len(runs) /\ runs[r].pc = "persist"
    /\ runs[r].cur = 0 /\ runs[r].pk < Len(PersistList(runs[r]))
    /\ LET x == runs[r] IN
       \/ /\ nBuckets' = nBuckets + 1
          /\ runs' = [runs EXCEPT ![r].cur = nBuckets + 1]
       \/ /\ \E f \in SeqSet(PersistList(x)[x.pk + 1]) : media[f].labeled
          /\ runs' = [runs EXCEPT ![r] = Throw(x, "generateClusterName")]
          /\ nBuckets' = nBuckets
    /\ UNCHANGED <<envVars, outVars, job, media, matches, upVars>>

\* prisma.mediaFile.updateMany: `ids` get bucketId `b`
AssignBucket(m, ids, b) ==
    [f \in 1..Len(m) |-> IF f \in ids THEN [m[f] EXCEPT !.bucketId = b] ELSE m[f]]

\* the members of the bucket just created are attached; after the last bucket the
\* flow goes on to stage 3
PersistAssign(r) ==
    /\ up /\ r \in 1..Len(runs) /\ runs[r].pc = "persist" /\ runs[r].cur # 0
    /\ LET x == runs[r] IN
       /\ media' = AssignBucket(media, SeqSet(PersistList(x)[x.pk + 1]), x.cur)
       /\ runs' = [runs EXCEPT ![r].cur = 0, ![r].pk = @ + 1,
                               ![r].pc = IF x.pk + 1 = Len(PersistList(x))
                                            THEN "wRanking" ELSE @]
    /\ UNCHANGED <<envVars, outVars, job, nBuckets, matches, upVars>>

\* ------------------------------------------------ stage 3: round-robin ranking
\* confidence of compareImages, in percent: clamped to [0, 1], and 0.5 when absent or 0
Confidences == {50, 100}

\* 1 / (1 + 10^((other - own) / 400)) in per mille, for a rating difference d in
\* hundredths of a point: the expansion 1/2 - d ln(10)/1600 of the logistic around
\* equal ratings (within 1 per mille for the differences a bucket of MaxEntries
\* files can reach), clamped to [0, 1]
Expected(d) ==
    LET lin == IF d >= 0 THEN (d * 1439) \div 100000 ELSE 0 - (((0 - d) * 1439) \div 100000)
        e == 500 - lin
    IN IF e < 0 THEN 0 ELSE IF e > 1000 THEN 1000 ELSE e

\* an Elo update that takes the winner's expected score for the loser's as well
EloUpdateSameExpected(elo, w, l, conf) ==
    LET expectedWinner == Expected(elo[l] - elo[w])
    IN [elo EXCEPT ![w] = @ + (ELO_K_FACTOR * conf * (1000 - expectedWinner)) \div 1000,
                   ![l] = @ - (ELO_K_FACTOR * conf * expectedWinner) \div 1000]

\* the Elo update of one match on eloScores (hundredths of a point):
\* K = ELO_K_FACTOR * confidence; winner + K (1 - expectedWinner); loser - K expectedLoser
EloUpdate(elo, w, l, conf) ==
    LET expectedWinner == Expected(elo[l] - elo[w])
        expectedLoser == Expected(elo[w] - elo[l])
    IN [elo EXCEPT ![w] = @ + (ELO_K_FACTOR * conf * (1000 - expectedWinner)) \div 1000,
                   ![l] = @ - (ELO_K_FACTOR * conf * expectedLoser) \div 1000]

\* the TournamentMatch row of a match of bucket b between file1 and file2
MatchRow(b, file1, file2, winner) ==
    [bucketId |-> b, mediaType |-> "image", round |-> 1,
     media1Id |-> file1, media2Id |-> file2,
     winnerId |-> IF winner = 1 THEN file1 ELSE file2,
     media1EloChange |-> IF winner = 1 THEN 16 ELSE -16,
     media2EloChange |-> IF winner = 2 THEN 16 ELSE -16]

\* [...eloScores.entries()].sort((a, b) => b[1] - a[1]).slice(0, 3): the ids of the
\* three best ratings, ties in insertion order (the sort is stable)
Top3(files, elo) ==
    LET before(i, k) == elo[files[i]] > elo[files[k]]
                        \/ (elo[files[i]] = elo[files[k]] /\ i < k)
        pos(k) == Cardinality({i \in 1..Len(files) : before(i, k)})
        m == IF Len(files) < TOP_N THEN Len(files) ELSE TOP_N
    IN [r \in 1..m |-> files[CHOOSE k \in 1..Len(files) : pos(k) = r - 1]]

\* stage 3 entry: data {status: 'ranking', processedFiles: 0}
WriteRanking(r) ==
    /\ up /\ r \in 1..Len(runs) /\ runs[r].pc = "wRanking"
    /\ job' = StageWrite(job, "ranking")
    /\ runs' = [runs EXCEPT ![r].pc = "readBuckets", ![r].mg = NoMerge]
    /\ UNCHANGED <<envVars, outVars, media, nBuckets, matches, upVars>>

\* bucket.mediaFiles.filter(image) of Bucket record b
BucketImages(b) == Images(SelectSeq([f \in 1..Len(media) |-> f],
                                    LAMBDA f : media[f].bucketId = b))

\* the loop head for bucket b: eloScores and the match list of a bucket of two or
\* more images, nothing for a smaller one
EnterBucket(buckets, b) ==
    IF b <= Len(buckets) /\ Len(buckets[b]) >= 2
       THEN [buckets |-> buckets,
             elo |-> [f \in SeqSet(buckets[b]) |-> ELO_INITIAL_SCORE * 100],
             pending |-> BucketPairs(Len(buckets[b])),
             marks |-> <<>>,
             failed |-> {}]
       ELSE [buckets |-> buckets, elo |-> <<>>, pending |-> {}, marks |-> <<>>,
             failed |-> {}]

\* prisma.bucket.findMany({include: mediaFiles}), then updateProgress('ranking', 0, n)
ReadBuckets(r) ==
    /\ up /\ r \in 1..Len(runs) /\ runs[r].pc = "readBuckets"
    /\ LET buckets == [b \in 1..nBuckets |-> BucketImages(b)]
       IN runs' = [runs EXCEPT ![r].rk = EnterBucket(buckets, 1),
                               ![r].rb = 1,
                               ![r].pc = IF nBuckets = 0 THEN "wEnhancing" ELSE "rank"]
    /\ job' = UpdateProgress(job, 0, nBuckets)
    /\ UNCHANGED <<envVars, outVars, media, nBuckets, matches, upVars>>

\* the image files of the bucket run x is ranking
RankFiles(x) == x.rk.buckets[x.rb]

\* the ranking loop of run x goes on to bucket b + 1, or to stage 4 after the last
NextBucket(x) ==
    [x EXCEPT !.rb = @ + 1,
              !.rk = EnterBucket(x.rk.buckets, x.rb + 1),
              !.pc = IF x.rb + 1 > Len(x.rk.buckets) THEN "wEnhancing" ELSE "rank"]

\* a bucket of fewer than two images: updateProgress('ranking', b + 1, n); continue
RankSkip(r) ==
    /\ up /\ r \in 1..Len(runs) /\ runs[r].pc = "rank"
    /\ runs[r].rb <= Len(runs[r].rk.buckets)
    /\ Len(RankFiles(runs[r])) < 2
    /\ job' = UpdateProgress(job, runs[r].rb, Len(runs[r].rk.buckets))
    /\ runs' = [runs EXCEPT ![r] = NextBucket(@)]
    /\ UNCHANGED <<envVars, outVars, media, nBuckets, matches, upVars>>

\* a rankLimit task without the try/catch: a failing comparison rejects Promise.all
\* and the run throws
MatchThrows(r, p) ==
    /\ up /\ r \in 1..Len(runs) /\ runs[r].pc = "rank" /\ p \in runs[r].rk.pending
    /\ LET x == runs[r]
           file1 == RankFiles(x)[p[1]]
           file2 == RankFiles(x)[p[2]]
       IN \/ \E winner \in {1, 2}, conf \in Confidences :
                /\ runs' = [runs EXCEPT
                              ![r].rk.pending = @ \ {p},
                              ![r].rk.elo = EloUpdate(@, IF winner = 1 THEN file1 ELSE file2,
                                                      IF winner = 1 THEN file2 ELSE file1,
                                                      conf)]
                /\ matches' = matches \cup {MatchRow(x.rb, file1, file2, winner)}
          \/ /\ runs' = [runs EXCEPT ![r] = Throw([x EXCEPT !.rk.pending = @ \ {p},
                                                            !.rk.failed = @ \cup {p}],
                                                  "match")]
             /\ matches' = matches
    /\ UNCHANGED <<envVars, outVars, job, media, nBuckets, upVars>>

\* one rankLimit task: compareImages, the Elo update and prisma.tournamentMatch.create;
\* a failing comparison is caught and the match is dropped (failed records it)
Match(r, p) ==
    /\ up /\ r \in 1..Len(runs) /\ runs[r].pc = "rank" /\ p \in runs[r].rk.pending
    /\ LET x == runs[r]
           file1 == RankFiles(x)[p[1]]
           file2 == RankFiles(x)[p[2]]
       IN \/ \E winner \in {1, 2}, conf \in Confidences :
                /\ runs' = [runs EXCEPT
                              ![r].rk.pending = @ \ {p},
                              ![r].rk.elo = EloUpdate(@, IF winner = 1 THEN file1 ELSE file2,
                                                      IF winner = 1 THEN file2 ELSE file1,
                                                      conf)]
                /\ matches' = matches \cup {MatchRow(x.rb, file1, file2, winner)}
          \/ /\ runs' = [runs EXCEPT ![r].rk.pending = @ \ {p},
                                      ![r].rk.failed = @ \cup {p}]
             /\ matches' = matches
    /\ UNCHANGED <<envVars, outVars, job, media, nBuckets, upVars>>

\* prisma.mediaFile.update({eloScore}) for every entry of eloScores
StoreElo(m, elo) ==
    [f \in 1..Len(m) |-> IF f \in DOMAIN elo THEN [m[f] EXCEPT !.eloScore = elo[f]]
                                             ELSE m[f]]

\* every match returned: the ratings are stored and top3 is computed
SaveElo(r) ==
    /\ up /\ r \in 1..Len(runs) /\ runs[r].pc = "rank"
    /\ runs[r].rb <= Len(runs[r].rk.buckets)
    /\ Len(RankFiles(runs[r])) >= 2 /\ runs[r].rk.pending = {}
    /\ media' = StoreElo(media, runs[r].rk.elo)
    /\ ranked' = ranked \cup {runs[r].rb}
    /\ runs' = [runs EXCEPT ![r].rk.marks = Top3(RankFiles(runs[r]), runs[r].rk.elo),
                            ![r].pc = "mark"]
    /\ UNCHANGED <<baseVars, outVars, job, nBuckets, matches, upVars>>

\* for (const [id] of top3): prisma.mediaFile.update({isTopPick: true}), one at a time
MarkTopPick(r) ==
    /\ up /\ r \in 1..Len(runs) /\ runs[r].pc = "mark" /\ runs[r].rk.marks # <<>>
    /\ media' = [media EXCEPT ![Head(runs[r].rk.marks)].isTopPick = TRUE]
    /\ runs' = [runs EXCEPT ![r].rk.marks = Tail(@)]
    /\ UNCHANGED <<envVars, outVars, job, nBuckets, matches, upVars>>

\* the bucket is ranked: updateProgress('ranking', b + 1, n)
RankDone(r) ==
    /\ up /\ r \in 1..Len(runs) /\ runs[r].pc = "mark" /\ runs[r].rk.marks = <<>>
    /\ job' = UpdateProgress(job, runs[r].rb, Len(runs[r].rk.buckets))
    /\ runs' = [runs EXCEPT ![r] = NextBucket(@)]
    /\ UNCHANGED <<envVars, outVars, media, nBuckets, matches, upVars>>

\* ------------------------------------------------ stage 4: enhancement, completion
\* stage 4 entry: data {status: 'enhancing', processedFiles: 0}
WriteEnhancing(r) ==
    /\ up /\ r \in 1..Len(runs) /\ runs[r].pc = "wEnhancing"
    /\ job' = StageWrite(job, "enhancing")
    /\ runs' = [runs EXCEPT ![r].pc = "pEnhancing", ![r].rk = IdleRk]
    /\ UNCHANGED <<envVars, outVars, media, nBuckets, matches, upVars>>

\* updateProgress('enhancing', 0, 1)
StartEnhancing(r) ==
    /\ up /\ r \in 1..Len(runs) /\ runs[r].pc = "pEnhancing"
    /\ job' = UpdateProgress(job, 0, 1)
    /\ runs' = [runs EXCEPT ![r].pc = "enhance"]
    /\ UNCHANGED <<envVars, outVars, media, nBuckets, matches, upVars>>

\* enhanceTopImages' query for bucket b: the image top picks, best rating first, at
\* most topN of them (ties in the store's order): the sets the query can return
EnhanceTargetsAnyImage(b) ==
    LET picks == {f \in 1..Len(media) : /\ media[f].bucketId = b
                                        /\ media[f].mtype = "image"}
        m == IF Cardinality(picks) < TOP_N THEN Cardinality(picks) ELSE TOP_N
    IN {T \in SUBSET picks :
          /\ Cardinality(T) = m
          /\ \A x \in T, y \in picks \ T : media[x].eloScore >= media[y].eloScore}

EnhanceTargets(b) ==
    LET picks == {f \in 1..Len(media) : /\ media[f].bucketId = b
                                        /\ media[f].mtype = "image"
                                        /\ media[f].isTopPick}
        m == IF Cardinality(picks) < TOP_N THEN Cardinality(picks) ELSE TOP_N
    IN {T \in SUBSET picks :
          /\ Cardinality(T) = m
          /\ \A x \in T, y \in picks \ T : media[x].eloScore >= media[y].eloScore}

\* enhanceTopImages: enhanceImage for every file the queries return; a failing or
\* empty enhancement leaves the file as it is
Enhance(r) ==
    /\ up /\ r \in 1..Len(runs) /\ runs[r].pc = "enhance"
    /\ \E S \in SUBSET (1..Len(media)) :
          /\ \A f \in S : media[f].bucketId \in 1..nBuckets
          /\ \A b \in 1..nBuckets :
                \E T \in EnhanceTargets(b) : {f \in S : media[f].bucketId = b} \subseteq T
          /\ media' = [f \in 1..Len(media) |->
                          IF f \in S THEN [media[f] EXCEPT !.enhanced = TRUE] ELSE media[f]]
          /\ blobs' = blobs \cup {<<"enh", f>> : f \in S}
    /\ runs' = [runs EXCEPT ![r].pc = "pEnhanced"]
    /\ UNCHANGED <<envVars, reply, http, job, nBuckets, matches, upVars>>

\* updateProgress('enhancing', 1, 1)
EnhancingDone(r) ==
    /\ up /\ r \in 1..Len(runs) /\ runs[r].pc = "pEnhanced"
    /\ job' = UpdateProgress(job, 1, 1)
    /\ runs' = [runs EXCEPT ![r].pc = "wCompleted"]
    /\ UNCHANGED <<envVars, outVars, media, nBuckets, matches, upVars>>

\* data {status: 'completed', completedAt}
WriteCompleted(r) ==
    /\ up /\ r \in 1..Len(runs) /\ runs[r].pc = "wCompleted"
    /\ job' = [job EXCEPT !.status = "completed"]
    /\ runs' = [runs EXCEPT ![r].pc = "pCompleted"]
    /\ UNCHANGED <<envVars, outVars, media, nBuckets, matches, upVars>>

\* updateProgress('complete', 1, 1); processJob returns
RunDone(r) ==
    /\ up /\ r \in 1..Len(runs) /\ runs[r].pc = "pCompleted"
    /\ job' = UpdateProgress(job, 1, 1)
    /\ runs' = [runs EXCEPT ![r] = [NewRun EXCEPT !.pc = "done"]]
    /\ UNCHANGED <<envVars, outVars, media, nBuckets, matches, upVars>>

\* ------------------------------------------------ process crash and job recovery
\* the server process dies: memory is lost, the record store and the disk stay
Crash ==
    /\ up /\ crashes < MaxCrashes /\ job.status # "none"
    /\ up' = FALSE
    /\ crashes' = crashes + 1
    /\ session' = NoSession
    /\ pus' = <<>>
    /\ runs' = <<>>
    /\ UNCHANGED <<entries, extra, client, others, started, cancelled, ranked, oracle,
                   tp, ks, tr, outVars, dbVars, tempFile, scratch>>

\* a boot whose query is status notIn ['completed'] alone
RequeueNotCompleted ==
    /\ ~up
    /\ up' = TRUE
    /\ runs' = IF job.status \notin {"none", "deleted", "completed"}
                  THEN Append(runs, NewRun) ELSE runs
    /\ started' = SelectSeq([j \in 1..Len(others) |-> j],
                            LAMBDA j : others[j] \notin {"completed"})
    /\ UNCHANGED <<crashes, entries, extra, client, others, cancelled, ranked, oracle,
                   tp, ks, tr, outVars, dbVars, upVars>>

\* boot: requeueIncompleteJobs: findMany status notIn ['completed', 'failed'] in
\* createdAt order, and one processJob call for each job found
RequeueIncompleteJobs ==
    /\ ~up
    /\ up' = TRUE
    /\ runs' = IF job.status \notin {"none", "deleted", "completed", "failed"}
                  THEN Append(runs, NewRun) ELSE runs
    /\ started' = SelectSeq([j \in 1..Len(others) |-> j],
                            LAMBDA j : others[j] \notin {"completed", "failed"})
    /\ UNCHANGED <<crashes, entries, extra, client, others, cancelled, ranked, oracle,
                   tp, ks, tr, outVars, dbVars, upVars>>

\* ------------------------------------------------------ DELETE /api/jobs/:id
\* nothing works on the job: no session, no activation and no labeling worker of an
\* ended run is in flight
Quiescent ==
    /\ ~session.active
    /\ \A a \in 1..Len(pus) : pus[a].pc = "done"
    /\ \A r \in 1..Len(runs) :
          /\ runs[r].pc = "done"
          /\ \A f \in 1..Len(runs[r].wk) : runs[r].wk[f].pc \in {"idle", "done"}

\* the Job record after prisma.job.delete
DeletedJob == [NoJob EXCEPT !.status = "deleted"]

\* the DELETE handler for the id of a job that was created: findMany of the job's
\* media files; for each file deleteFromS3(s3Key), then deleteFromS3(enhancedS3Key) if
\* set, a rejection of either skipping the rest of that file's round; then
\* prisma.job.delete, which cascades, or throws when the record is gone (answer 500)
Delete(failOrig, failEnh) ==
    /\ up /\ job.status # "none" /\ Len(http) < MaxDeletes
    /\ Quiescent
    /\ failOrig \subseteq 1..Len(media) /\ failEnh \subseteq 1..Len(media)
    /\ IF job.status # "deleted"
          THEN /\ blobs' = blobs \ ({<<"orig", f>> : f \in (1..Len(media)) \ failOrig}
                                     \cup {<<"enh", f>> : f \in {g \in 1..Len(media) :
                                                           /\ media[g].enhanced
                                                           /\ g \notin failOrig
                                                           /\ g \notin failEnh}})
               /\ job' = DeletedJob
               /\ media' = <<>>
               /\ nBuckets' = 0
               /\ matches' = {}
               /\ http' = Append(http, 200)
          ELSE /\ http' = Append(http, 500)
               /\ UNCHANGED <<blobs, dbVars>>
    /\ UNCHANGED <<envVars, reply, upVars, runs>>

\* ------------------------------------------------------------ cancellation
\* the user asks to cancel the job while processJob works on it; processJob takes
\* jobId and onProgress only, so no statement of the pipeline reads the request
Cancel ==
    /\ up /\ ~cancelled
    /\ \E r \in 1..Len(runs) : runs[r].pc # "done"
    /\ job.status \notin Terminal
    /\ cancelled' = TRUE
    /\ UNCHANGED <<up, crashes, entries, extra, client, others, started, ranked, oracle,
                   tp, ks, tr, outVars, dbVars, upVars, runs>>

\* ------------------------------------- hybrid pipeline: parallel tournaments
\* everything but the pool: the hybrid pipeline's ranking stage leaves it alone
jobVars == <<up, crashes, entries, extra, client, others, started, cancelled, oracle,
             ranked, outVars, dbVars, upVars, runs>>

\* a bucket task of the ranking stage: its image and video members, its position,
\* and the match tasks of its current tournament (left: not yet returned, run:
\* holding a slot)
PoolBucket(imgs, vids) ==
    [imgs |-> imgs, vids |-> vids, pc |-> "queued", left |-> 0, run |-> 0]

\* the ranking stage is reached with the Buckets prisma.bucket.findMany returns
InitPool ==
    /\ InitStore
    /\ ks = NoKeys
    /\ tr = NoRunner
    /\ up = TRUE
    /\ entries = <<>>
    /\ extra = 0
    /\ client = OrderedClient
    /\ others = <<>>
    /\ \E n \in 1..MaxPoolBuckets :
          \E imgs, vids \in [1..n -> 0..MaxPoolFiles] :
              /\ \A b \in 1..n : imgs[b] + vids[b] >= 1
              /\ tp = [IdlePool EXCEPT !.bk = [b \in 1..n |-> PoolBucket(imgs[b], vids[b])]]

\* p-limit starts task t: a bucket task <<"b", b>> or a match task <<"m", b>> of
\* bucket b takes a slot
StartTask(p, t) ==
    IF t[1] = "b" THEN [p EXCEPT !.active = @ + 1, !.bk[t[2]].pc = "start"]
                  ELSE [p EXCEPT !.active = @ + 1, !.bk[t[2]].run = @ + 1]

\* tournamentLimit(fn): the task starts if a slot is free, else it is queued
Submit(p, t) ==
    IF p.active < TOURNAMENT_CONCURRENCY THEN StartTask(p, t)
                                          ELSE [p EXCEPT !.queue = Append(@, t)]

\* k tasks t submitted one after the other (matchups.map)
RECURSIVE SubmitN(_, _, _)
SubmitN(p, t, k) == IF k = 0 THEN p ELSE SubmitN(Submit(p, t), t, k - 1)

\* buckets.map(bucket => tournamentLimit(...)): the bucket tasks b.. are submitted
RECURSIVE SubmitBuckets(_, _)
SubmitBuckets(p, b) ==
    IF b > Len(p.bk) THEN p ELSE SubmitBuckets(Submit(p, <<"b", b>>), b + 1)

\* a task settles: its slot is freed and the head of the queue, if any, starts
Release(p) ==
    LET q == [p EXCEPT !.active = @ - 1]
    IN IF q.queue = <<>> THEN q ELSE StartTask([q EXCEPT !.queue = Tail(@)], Head(q.queue))

\* the matchups of a round-robin over n competitors
Matchups(n) == (n * (n - 1)) \div 2

\* runBucketTournament for n files of bucket b: every matchup is submitted to
\* tournamentLimit and the bucket task awaits them all
RunBucketTournament(p, b, n, pc) ==
    SubmitN([p EXCEPT !.bk[b].pc = pc, !.bk[b].left = Matchups(n)], <<"m", b>>, Matchups(n))

\* the bucket task of bucket b ends: tournamentsDone++, updateProgress, slot freed
BucketTaskEnd(p, b) == Release([p EXCEPT !.bk[b].pc = "done"])

\* stage 4 of the hybrid pipeline starts: every bucket task is submitted
PoolSubmitBuckets ==
    /\ up /\ tp.status = "idle"
    /\ tp' = SubmitBuckets([tp EXCEPT !.status = "ranking"], 1)
    /\ UNCHANGED <<jobVars, ks, tr>>

\* a bucket task holding a slot runs: the image tournament if the bucket has more
\* than one image, else the video tournament if it has more than one video, else
\* it ends
BucketTaskStart(b) ==
    /\ up /\ tp.status = "ranking" /\ b \in 1..Len(tp.bk) /\ tp.bk[b].pc = "start"
    /\ tp' = IF tp.bk[b].imgs > 1 THEN RunBucketTournament(tp, b, tp.bk[b].imgs, "images")
             ELSE IF tp.bk[b].vids > 1
                     THEN RunBucketTournament(tp, b, tp.bk[b].vids, "videos")
             ELSE BucketTaskEnd(tp, b)
    /\ UNCHANGED <<jobVars, ks, tr>>

\* a match task holding a slot returns: downloads, comparison, recordResult and
\* tournamentMatch.create are done and its slot is freed
MatchTaskReturn(b) ==
    /\ up /\ tp.status = "ranking" /\ b \in 1..Len(tp.bk) /\ tp.bk[b].run > 0
    /\ tp' = Release([tp EXCEPT !.bk[b].run = @ - 1, !.bk[b].left = @ - 1])
    /\ UNCHANGED <<jobVars, ks, tr>>

\* a match task holding a slot rejects (a download or the comparison fails): the
\* Promise.all of its tournament rejects, the bucket task rejects and frees its
\* slot too, and processJob goes to its catch block, which writes failed
MatchTaskThrow(b) ==
    /\ up /\ tp.status = "ranking" /\ b \in 1..Len(tp.bk) /\ tp.bk[b].run > 0
    /\ tp' = [Release(Release([tp EXCEPT !.bk[b].run = @ - 1, !.bk[b].left = @ - 1,
                                         !.bk[b].pc = "failed"]))
                EXCEPT !.status = "failed"]
    /\ UNCHANGED <<jobVars, ks, tr>>

\* every match task of the tournament of bucket b has returned: the ratings are
\* stored; after the image tournament the video tournament follows if the bucket
\* has more than one video, else the bucket task ends
TournamentSaved(b) ==
    /\ up /\ tp.status = "ranking" /\ b \in 1..Len(tp.bk)
    /\ tp.bk[b].pc \in {"images", "videos"} /\ tp.bk[b].left = 0
    /\ tp' = IF tp.bk[b].pc = "images" /\ tp.bk[b].vids > 1
                THEN RunBucketTournament(tp, b, tp.bk[b].vids, "videos")
                ELSE BucketTaskEnd(tp, b)
    /\ UNCHANGED <<jobVars, ks, tr>>

\* the Promise.all over the bucket tasks resolves: the stage goes on to the top
\* picks, the enhancement and the completed write
PoolAllDone ==
    /\ up /\ tp.status = "ranking"
    /\ \A b \in 1..Len(tp.bk) : tp.bk[b].pc = "done"
    /\ tp' = [tp EXCEPT !.status = "done"]
    /\ UNCHANGED <<jobVars, ks, tr>>

\* ------------------------------------------ processUpload: blob keys of entries
\* the characters of entry names: a kept character, two that sanitization
\* replaces, and the path separator
NameChars == {"a", " ", "_", "/"}

\* the extension every accepted entry here ends with, taken as one token
Ext == ".jpg"

\* the entry names of an archive: up to MaxNameLen characters and the extension,
\* relative paths without an empty directory name
EntryNames ==
    {stem \o <<Ext>> :
        stem \in {t \in UNION {[1..n -> NameChars] : n \in 1..MaxNameLen} :
                     /\ t[1] # "/"
                     /\ \A k \in 1..(Len(t) - 1) : ~(t[k] = "/" /\ t[k + 1] = "/")}}

\* the last segment of s: s.split('/').pop()
RECURSIVE SplitPop(_)
SplitPop(s) ==
    IF s = <<>> THEN <<>>
    ELSE IF s[Len(s)] = "/" THEN <<>>
    ELSE Append(SplitPop(SubSeq(s, 1, Len(s) - 1)), s[Len(s)])

\* entry.entryName.split('/').pop() || entry.entryName
Filename(name) == IF SplitPop(name) = <<>> THEN name ELSE SplitPop(name)

\* the characters /[^a-zA-Z0-9.-]/ does not match
KeptChars == {"a", Ext}

\* filename.replace(/[^a-zA-Z0-9.-]/g, '_')
Sanitize(s) == [k \in 1..Len(s) |-> IF s[k] \in KeptChars THEN s[k] ELSE "_"]

\* generateS3Key: `jobs/${jobId}/${type}/${sanitizedFilename}`, for the one job
GenerateS3Key(filename, type) == <<"jobs", "job", type>> \o Sanitize(filename)

\* the archive holds distinct accepted entries; the Job record exists and the
\* loop of processUpload is about to start
InitKeys ==
    /\ InitStore
    /\ tp = IdlePool
    /\ tr = NoRunner
    /\ up = TRUE
    /\ entries = <<>>
    /\ extra = 0
    /\ client = OrderedClient
    /\ others = <<>>
    /\ \E n \in 1..MaxKeyEntries :
          \E names \in [1..n -> EntryNames] :
              /\ \A a, b \in 1..n : a # b => names[a] # names[b]
              /\ ks = [NoKeys EXCEPT !.names = names, !.i = 1, !.pc = "upload"]

\* an iteration of the loop: uploadToS3(generateS3Key(jobId, filename), buffer);
\* PutObject replaces the object a key already has
KeyUpload ==
    /\ up /\ ks.pc = "upload" /\ ks.i <= Len(ks.names)
    /\ LET key == GenerateS3Key(Filename(ks.names[ks.i]), "original")
       IN ks' = [ks EXCEPT !.pc = "create",
                           !.objs = {o \in @ : o.key # key}
                                    \cup {[key |-> key, body |-> ks.i]}]
    /\ UNCHANGED <<jobVars, tp, tr>>

\* the iteration goes on: prisma.mediaFile.create with originalPath and s3Key
KeyCreate ==
    /\ up /\ ks.pc = "create"
    /\ LET name == ks.names[ks.i]
       IN ks' = [ks EXCEPT !.pc = IF ks.i = Len(ks.names) THEN "done" ELSE "upload",
                           !.i = @ + 1,
                           !.rows = Append(@, [originalPath |-> name,
                                               filename |-> Filename(name),
                                               s3Key |-> GenerateS3Key(Filename(name),
                                                                       "original")])]
    /\ UNCHANGED <<jobVars, tp, tr>>

\* ---------------------------------------- single-elimination tournament runner
\* the competitors still in the tournament: eloScore >= 0 (a negative rating is
\* to mark an eliminated competitor)
Active(comp) == {i \in 1..Len(comp) : comp[i] >= 0}

\* [...competitors].sort((a, b) => b.eloScore - a.eloScore) over the competitors
\* in act: best rating first, ties in index order (the sort is stable)
Seeded(comp, act) ==
    LET before(j, i) == comp[j] > comp[i] \/ (comp[j] = comp[i] /\ j < i)
        pos(i) == 1 + Cardinality({j \in act : before(j, i)})
    IN [k \in 1..Cardinality(act) |-> CHOOSE i \in act : pos(i) = k]

\* the marker of a bye, in the place of the second competitor
Bye == 0 - 1

\* generateBracket: first against last, second against second to last, and so
\* on; with an odd number the middle one gets a bye
GenerateBracket(sorted) ==
    LET n == Len(sorted)
    IN [k \in 1..(n \div 2) |-> <<sorted[k], sorted[n + 1 - k]>>]
       \o (IF n % 2 = 1 THEN <<<<sorted[(n \div 2) + 1], Bye>>>> ELSE <<>>)

\* getNextMatchups of a single-elimination runner: nothing when at most one
\* competitor is active, else the bracket of the active ones
NextMatchups(comp) ==
    IF Cardinality(Active(comp)) <= 1 THEN <<>>
    ELSE GenerateBracket(Seeded(comp, Active(comp)))

\* isComplete of a single-elimination runner
IsComplete(comp) == Cardinality(Active(comp)) <= 1

\* createTournamentRunner with two or more competitors of the initial rating,
\* type 'single-elimination'; currentRound = 1
InitBracket ==
    /\ InitStore
    /\ tp = IdlePool
    /\ ks = NoKeys
    /\ up = TRUE
    /\ entries = <<>>
    /\ extra = 0
    /\ client = OrderedClient
    /\ others = <<>>
    /\ \E n \in 2..MaxCompetitors :
          tr = [NoRunner EXCEPT !.comp = [i \in 1..n |-> ELO_INITIAL_SCORE * 100],
                                !.round = 1, !.pc = "get"]

\* the caller takes getNextMatchups(): no pairing ends the loop, else every
\* pairing but the bye awaits its result
GetNextMatchups ==
    /\ up /\ tr.pc = "get"
    /\ LET m == NextMatchups(tr.comp)
       IN tr' = [tr EXCEPT !.matchups = m,
                           !.pending = {k \in 1..Len(m) : m[k][2] # Bye},
                           !.pc = IF m = <<>> THEN "complete" ELSE "record"]
    /\ UNCHANGED <<jobVars, tp, ks>>

\* the confidence the caller passes to recordResult, in percent: a number of
\* [0, 1], 0 included (adjustedK = 0, the ratings stay)
RunnerConfidences == {0} \cup Confidences

\* recordResult for pairing k of the round: the winner is either competitor, the
\* ratings get the Elo update; no competitor is marked as eliminated. rated counts
\* the results of a confidence above 0, of which a run has at most MaxRated
RecordResult(k) ==
    /\ up /\ tr.pc = "record" /\ k \in tr.pending
    /\ \E winner \in {1, 2}, conf \in RunnerConfidences :
          /\ conf = 0 \/ tr.rated < MaxRated
          /\ tr' = [tr EXCEPT !.pending = @ \ {k},
                              !.rated = IF conf = 0 THEN @ ELSE @ + 1,
                              !.comp = EloUpdate(@, tr.matchups[k][winner],
                                                 tr.matchups[k][3 - winner], conf)]
    /\ UNCHANGED <<jobVars, tp, ks>>

\* every pairing of the round has its result: nextRound(), currentRound++ (the
\* round number, which only labels the recorded matches, is kept up to MaxRounds)
NextRound ==
    /\ up /\ tr.pc = "record" /\ tr.pending = {}
    /\ tr' = [tr EXCEPT !.round = IF @ < MaxRounds THEN @ + 1 ELSE @, !.pc = "get"]
    /\ UNCHANGED <<jobVars, tp, ks>>

\* ------------------------------------------------------------ specification
\* the activations one session can start: one per frame from the last announced on
Activations == 1..(1 + MaxExtra)

\* a step of the upload assembler
Upload ==
    \/ \E totalChunks \in 1..MaxChunks : InitUploadSession(totalChunks)
    \/ BindSession
    \/ HandleChunk
    \/ \E a \in Activations : PuStatus(a) \/ PuOpen(a) \/ PuEntry(a) \/ PuFinish(a)
                              \/ PuCatch(a)

\* a step of activation r in stage 1, or its catch block
Labeling(r) ==
    \/ RunStart(r) \/ RunMedia(r) \/ WriteLabeling(r) \/ StartLabeling(r)
    \/ \E f \in 1..(2 * MaxEntries) : WorkerDownload(r, f) \/ WorkerDescribe(r, f)
                                      \/ WorkerLabel(r, f) \/ WorkerProgress(r, f)
    \/ LabelingDone(r) \/ LoadExisting(r) \/ CatchFail(r)

\* a step of activation r in stage 2
Clustering(r) ==
    \/ WriteClustering(r) \/ StartClustering(r) \/ PhaseA(r) \/ StartMerging(r)
    \/ Merge(r) \/ PersistCreate(r) \/ PersistAssign(r)

\* a step of activation r in stage 3
Ranking(r) ==
    \/ WriteRanking(r) \/ ReadBuckets(r) \/ RankSkip(r)
    \/ \E p \in BucketPairs(2 * MaxEntries) : Match(r, p)
    \/ SaveElo(r) \/ MarkTopPick(r) \/ RankDone(r)

\* a step of activation r in stage 4 or the completion
Finishing(r) ==
    \/ WriteEnhancing(r) \/ StartEnhancing(r) \/ Enhance(r) \/ EnhancingDone(r)
    \/ WriteCompleted(r) \/ RunDone(r)

\* a step of processJob activation r
ProcessJob(r) == Labeling(r) \/ Clustering(r) \/ Ranking(r) \/ Finishing(r)

Next == Upload \/ (\E r \in Activations : ProcessJob(r)) \/ Crash \/ RequeueIncompleteJobs

Spec == Init /\ [][Next]_vars

\* the behaviours with extra frames in which the process stays up and only the first
\* processJob activation has been scheduled so far
NextFrames == Upload \/ ProcessJob(1)

SpecFrames == InitFrames /\ [][NextFrames]_vars

\* an upload, its pipeline, crash and recovery, with a cancellation request at any
\* moment of a run
NextCancel == Next \/ Cancel

SpecCancel == Init /\ [][NextCancel]_vars

\* an upload, its pipeline, crash and recovery, and DELETE requests for the job once
\* nothing works on it
NextDelete ==
    \/ Next
    \/ \E failOrig, failEnh \in SUBSET (1..MaxEntries) : Delete(failOrig, failEnh)

SpecDelete == Init /\ [][NextDelete]_vars

\* the first run of a labeled job from its clustering write to its end, with up to
\* MaxRankFiles files so that a bucket can have three matches
NextRank == Clustering(1) \/ Ranking(1) \/ Finishing(1) \/ CatchFail(1)

SpecRank == InitRank /\ [][NextRank]_vars

\* stage 2 of the first run of a labeled job, with up to MaxClusterFiles files so
\* that Phase A can leave four buckets to merge
NextCluster == Clustering(1) \/ CatchFail(1)

SpecCluster == InitCluster /\ [][NextCluster]_vars

\* stage 2 of the first run of a labeled job whose areSameTake answers follow one
\* fixed relation, the replies arriving in any order
SpecOracle == InitOracle /\ [][NextCluster]_vars

\* the ranking stage of the hybrid pipeline: bucket tasks and their match tasks
\* share tournamentLimit
NextPool ==
    \/ PoolSubmitBuckets
    \/ \E b \in 1..MaxPoolBuckets :
          BucketTaskStart(b) \/ MatchTaskReturn(b) \/ MatchTaskThrow(b)
          \/ TournamentSaved(b)
    \/ PoolAllDone

SpecPool == InitPool /\ [][NextPool]_vars

\* the loop of processUpload over the named entries of an archive
NextKeys == KeyUpload \/ KeyCreate

SpecKeys == InitKeys /\ [][NextKeys]_vars

\* the loop that drives a single-elimination runner round after round
NextBracket ==
    \/ GetNextMatchups
    \/ \E k \in 1..MaxCompetitors : RecordResult(k)
    \/ NextRound

SpecBracket == InitBracket /\ [][NextBracket]_vars

\* the loop goes on as long as it can: the caller awaits every result and then
\* asks for the next round
SpecBracketLive == SpecBracket /\ WF_vars(NextBracket)

\* the upload assembler and its connection: frames before the session, any chunk
\* indices, a disconnect at any moment
NextConn == Upload \/ FrameNoSession \/ Disconnect

SpecConn == InitConn /\ [][NextConn]_vars

\* the boot of a process over a store of jobs in any status
NextBoot == RequeueIncompleteJobs

SpecBoot == InitBoot /\ [][NextBoot]_vars

\* ---------------------------------------------------------------- properties
\* position of a status in the progression; 0 for a status outside it
StageRank(s) == IF \E i \in 1..Len(StageOrder) : StageOrder[i] = s
                   THEN CHOOSE i \in 1..Len(StageOrder) : StageOrder[i] = s
                   ELSE 0

PastLabeling == {"clustering", "merging", "ranking", "enhancing", "completed"}

RunIds == 1..Len(runs)

\* C1: every change of Job.status moves forward along uploading < extracting <
\* labeling < clustering < merging < ranking < enhancing < completed, or goes to
\* failed; this includes the writes of a run that recovery started at any status.
C1_StatusMovesForward ==
    [][job.status' # job.status
          => \/ job.status' = "failed"
             \/ StageRank(job.status') > StageRank(job.status)]_vars

\* C2: once Job.status is completed or failed, no step changes it again.
C2_TerminalIsFinal ==
    [][job.status \in Terminal => job.status' = job.status]_vars

\* C3: the step that handles an error thrown inside processJob sets status to failed
\* and Job.error to the error's message, and leaves every MediaFile (label, bucketId,
\* rating, top pick), every Bucket and every TournamentMatch as it was.
C3_FailureKeepsResults ==
    [][\A r \in RunIds :
          (runs[r].pc = "catch" /\ r \in 1..Len(runs') /\ runs'[r].pc = "done")
             => /\ job.status \notin Terminal
                /\ job'.status = "failed"
                /\ job'.error = runs[r].err
                /\ job'.error # "none"
                /\ media' = media
                /\ nBuckets' = nBuckets
                /\ matches' = matches]_vars

\* C3 witness: a run failed while naming a bucket after an earlier bucket had been
\* created and filled; the job is failed with that message and the bucket is kept.
C3_Witness ==
    \E r \in RunIds :
       /\ runs[r].pc = "done" /\ runs[r].err = "generateClusterName"
       /\ job.status = "failed" /\ job.error = "generateClusterName"
       /\ nBuckets >= 1
       /\ \E f \in 1..Len(media) : media[f].labeled /\ media[f].bucketId # 0

\* the status that follows a processing stage
NextStage(s) == StageOrder[StageRank(s) + 1]

\* C4: in a job that meets no error, every change of status out of labeling,
\* clustering, merging, ranking or enhancing is to the next status of the sequence
\* labeling, clustering, merging, ranking, enhancing, completed, and the same write
\* sets processedFiles to 0.
C4_StagesInSequence ==
    [][(/\ crashes = 0
        /\ job.status \in {"labeling", "clustering", "merging", "ranking", "enhancing"}
        /\ job.status' # job.status
        /\ job.status' # "failed")
          => /\ job.status' = NextStage(job.status)
             /\ job.processedFiles' = 0]_vars

\* C5: 0 <= processedFiles <= totalFiles in every state of the Job record.
C5_ProcessedWithinTotal ==
    /\ 0 <= job.processedFiles
    /\ job.processedFiles <= job.totalFiles

\* C5 witness: the labeling progress has reached the total of a job of two files.
C5_Witness ==
    /\ job.status = "labeling"
    /\ job.totalFiles = 2
    /\ job.processedFiles = job.totalFiles

\* C6: when the status is past labeling every MediaFile has a label, and when it is
\* completed every MediaFile also has a bucketId.
C6_LabelsAndBuckets ==
    /\ job.status \in PastLabeling => \A f \in 1..Len(media) : media[f].labeled
    /\ job.status = "completed" => \A f \in 1..Len(media) : media[f].bucketId # 0

\* the members of Bucket b of media type t, and its top picks among them
Members(b, t) == {f \in 1..Len(media) : media[f].bucketId = b /\ media[f].mtype = t}
TopPicks(b, t) == {f \in Members(b, t) : media[f].isTopPick}

Min(a, b) == IF a < b THEN a ELSE b

\* C7: in a completed job every Bucket has exactly min(3, image members) image top
\* picks and exactly min(3, video members) video top picks.
C7_TopPickCounts ==
    job.status = "completed"
       => \A b \in 1..nBuckets : \A t \in MediaTypes :
             Cardinality(TopPicks(b, t)) = Min(TOP_N, Cardinality(Members(b, t)))

\* C8: every TournamentMatch has its winnerId among media1Id and media2Id, and both
\* MediaFiles currently carry the match's bucketId, also after a resumed run.
C8_MatchesConsistent ==
    \A m \in matches :
       /\ m.winnerId \in {m.media1Id, m.media2Id}
       /\ media[m.media1Id].bucketId = m.bucketId
       /\ media[m.media2Id].bucketId = m.bucketId

C10_ResumeSkipsPhaseA ==
    \A r \in RunIds :
       runs[r].curStatus = "clustering"
          => /\ (runs[r].pc = "phaseA" /\ runs[r].ci > 0)
                => \A f \in 1..runs[r].n : media[f].bucketId = 0
             /\ (runs[r].pc = "persist" /\ runs[r].cur # 0)
                => \A f \in SeqSet(PersistList(runs[r])[runs[r].pk + 1]) :
                      media[f].bucketId = 0

\* how many times job j occurs in a sequence of job ids
Count(q, j) == Cardinality({i \in 1..Len(q) : q[i] = j})

C13_CancelStopsWorkers ==
    [][cancelled => /\ job'.status \in {job.status, "failed"}
                    /\ matches' = matches]_vars

\* C14: the hand-off of a session's scratch file to processUpload, and with it the
\* extraction and the start of processJob, happens at most once, whatever binary
\* frames arrive after the announced ones
C14_HandOffOnce ==
    /\ Len(pus) <= 1
    /\ Len(runs) <= 1
    /\ Len(media) <= Len(entries)

\* C15: a binary frame on a connection without an established session is answered
\* with the error 'No active upload session' and changes nothing: no Job is created,
\* no byte is written to a scratch file, no session is registered
C15_FrameWithoutSession ==
    [][(~session.bound /\ reply' # reply) =>
          /\ reply' = [type |-> "error", message |-> "No active upload session"]
          /\ UNCHANGED <<job, media, nBuckets, matches, session, tempFile, scratch,
                         pus, runs, blobs>>]_vars

\* a frame was answered with the error while no job existed, and none exists
C15_Witness ==
    /\ reply = [type |-> "error", message |-> "No active upload session"]
    /\ job.status = "none"
    /\ ~session.active /\ ~tempFile

\* C16: when the client disconnects before all chunks of its session were received,
\* the Job stays in status uploading: it is not marked failed, not handed to
\* processUpload, and no MediaFile is created for it
C16_DisconnectKeepsUploading ==
    (~session.open /\ session.received < session.total) =>
       /\ job.status = "uploading"
       /\ job.error = "none"
       /\ pus = <<>>
       /\ runs = <<>>
       /\ media = <<>>
       /\ blobs = {}

\* the client disconnected after one of two chunks, and the session was cleaned up
C16_Witness ==
    /\ ~session.open /\ session.bound
    /\ session.received = 1 /\ session.total = 2
    /\ ~session.active /\ ~tempFile
    /\ job.status = "uploading"

\* the session of the followed job has ended: a processUpload activation has
\* returned, or the connection that created the session is closed
SessionEnded ==
    \/ \E a \in 1..Len(pus) : pus[a].pc = "done"
    \/ ~session.open /\ job.status # "none"

\* C17: once a session has ended (extraction succeeded, extraction failed, or the
\* connection closed) its scratch file no longer exists and it has no entry in
\* activeSessions
C17_ScratchFileRemoved ==
    SessionEnded => (~tempFile /\ ~session.active)

\* C18: the content of a session's scratch archive is the concatenation of the
\* payloads of its binary frames in the order they arrived; a frame's chunk index
\* decides nothing about where its bytes go and is only echoed in the chunk_ack
C18_ScratchInArrivalOrder ==
    /\ (tempFile /\ (session.active \/ session.bound)) =>
          scratch = [i \in 1..Min(session.received, session.total) |->
                       client[i].payload]
    /\ (reply.type = "chunk_ack" /\ session.bound) =>
          /\ reply.received = session.received
          /\ reply.chunkIndex = client[reply.received].index

\* two frames arrived with their chunk indices swapped and different payloads
C18_Witness ==
    /\ tempFile
    /\ session.received = 2
    /\ client[1].index = 1 /\ client[2].index = 0
    /\ client[1].payload # client[2].payload
    /\ scratch = <<client[1].payload, client[2].payload>>
    /\ reply.type = "chunk_ack" /\ reply.chunkIndex = 0

\* C19: after DELETE /api/jobs/:id has answered success, no Job, MediaFile, Bucket
\* or TournamentMatch of the job remains and no blob of the job remains, also when
\* a blob deletion failed
C19_DeleteLeavesNothing ==
    (Len(http) >= 1 /\ http[1] = 200) =>
       /\ job.status = "deleted"
       /\ media = <<>>
       /\ nBuckets = 0
       /\ matches = {}
       /\ blobs = {}

\* C20: deleting the same job twice in sequence answers success to the first request
\* and 404 to the second
C20_SecondDeleteNotFound ==
    Len(http) >= 2 => (http[1] = 200 /\ http[2] = 404)

\* C21: a MediaFile has isTopPick = true only if the ranking of the Bucket it
\* currently belongs to has completed (every match returned and the final ratings
\* are stored), also in states reached after a resumed run
C21_TopPickAfterRanking ==
    \A f \in 1..Len(media) : media[f].isTopPick => media[f].bucketId \in ranked

\* C22: a MediaFile that has an enhanced version (enhancedBlobKey set, or an
\* enhanced object stored for it) is a top pick and an image: enhance is never
\* applied to a video or to a file that is not a pick
C22_EnhancedIsImagePick ==
    \A f \in 1..Len(media) :
        (media[f].enhanced \/ <<"enh", f>> \in blobs)
            => (media[f].isTopPick /\ media[f].mtype = "image")

\* an enhanced file exists in a job that also has a file left as it was
C22_Witness ==
    /\ \E f \in 1..Len(media) : media[f].enhanced
    /\ \E f \in 1..Len(media) : ~media[f].enhanced /\ media[f].bucketId # 0

\* C23: a Bucket with exactly one member has no TournamentMatch, and its member
\* is not marked isTopPick, in every state up to and including completed
C23_SingleMemberUnranked ==
    \A b \in 1..nBuckets :
        LET mem == {f \in 1..Len(media) : media[f].bucketId = b}
        IN Cardinality(mem) = 1
              => /\ \A m \in matches : m.bucketId # b
                 /\ \A f \in mem : ~media[f].isTopPick

\* C24: ranking treats videos like images: when the job has completed, every
\* Bucket with at least two video members has a TournamentMatch with mediaType
\* video among its videos, and only image top picks are enhanced
C24_VideosRanked ==
    job.status = "completed" =>
        /\ \A b \in 1..nBuckets :
              Cardinality(Members(b, "video")) >= 2
                 => \E m \in matches : /\ m.bucketId = b
                                       /\ m.mediaType = "video"
                                       /\ {m.media1Id, m.media2Id} \subseteq Members(b, "video")
        /\ \A f \in 1..Len(media) : media[f].enhanced => media[f].mtype = "image"

\* the positions of a run that has not gone past its labeling stage: it waits for
\* its workers, it is in its catch block, or it has ended
StaysInLabeling == {"labeling", "catch", "done"}

\* C25: if the describe call fails for any MediaFile, image or video, the run
\* does not leave labeling: it never goes on to the clustering write or any later
\* stage, and a job it alone works on does not get a later status
C25_FailedDescribeBlocks ==
    \A r \in RunIds :
        runs[r].df # {}
           => /\ runs[r].pc \in StaysInLabeling
              /\ Len(runs) = 1 => job.status \notin PastLabeling

\* C25 as amended: the same for a failed describe call of an image; a failed
\* describe call of a video alone does not stop the run
C25_FailedImageDescribeBlocks ==
    \A r \in RunIds :
        (\E f \in runs[r].df : media[f].mtype = "image")
           => /\ runs[r].pc \in StaysInLabeling
              /\ Len(runs) = 1 => job.status \notin PastLabeling

\* a run ended in failed after the describe call of an image failed, while another
\* file of the job got its label
C25_Witness ==
    \E r \in RunIds :
        /\ \E f \in runs[r].df : media[f].mtype = "image"
        /\ runs[r].pc = "done" /\ job.status = "failed" /\ job.error = "describe"
        /\ \E g \in 1..Len(media) : media[g].labeled

\* the pair p of the bucket run x is ranking has its TournamentMatch row
HasRow(x, p) ==
    \E m \in matches : /\ m.bucketId = x.rb
                        /\ m.media1Id = RankFiles(x)[p[1]]
                        /\ m.media2Id = RankFiles(x)[p[2]]

\* a failed match never stops the run, and when every task of a bucket has returned
\* each pair has either failed, with no row, or has its row
FailuresSkipped ==
    \A r \in RunIds :
        /\ runs[r].rk.failed # {} => runs[r].pc \in {"rank", "mark"}
        /\ runs[r].pc \in {"rank", "mark"} /\ runs[r].rb <= Len(runs[r].rk.buckets)
             => /\ \A p \in runs[r].rk.failed : ~HasRow(runs[r], p)
                /\ runs[r].rk.pending = {}
                      => \A p \in BucketPairs(Len(RankFiles(runs[r]))) :
                             p \in runs[r].rk.failed \/ HasRow(runs[r], p)

\* the step in which match p of run r fails
FailureStep(r, p) ==
    /\ r \in 1..Len(runs') /\ p \in runs'[r].rk.failed /\ p \notin runs[r].rk.failed

\* C26: a compareQuality match that fails during ranking is skipped: the step
\* writes no TournamentMatch row and changes no rating, the other matches of the
\* bucket stay scheduled and get their rows, the run goes on ranking, and the job
\* record is not touched, so the job does not become failed because of it
C26_FailedMatchSkipped ==
    /\ []FailuresSkipped
    /\ [][\A r \in RunIds : \A p \in runs[r].rk.pending :
             FailureStep(r, p)
                => /\ matches' = matches /\ job' = job /\ media' = media
                   /\ runs'[r].rk.elo = runs[r].rk.elo
                   /\ runs'[r].rk.pending = runs[r].rk.pending \ {p}
                   /\ runs'[r].pc = "rank"]_vars

\* a bucket of three images whose tasks have all returned: one match failed and the
\* two others have their rows
C26_Witness ==
    \E r \in RunIds :
        /\ runs[r].pc = "mark" /\ Cardinality(runs[r].rk.failed) = 1
        /\ Len(RankFiles(runs[r])) = 3
        /\ Cardinality({m \in matches : m.bucketId = runs[r].rb}) = 2

\* C27: a job whose archive yields zero media files never gets a Bucket or a
\* TournamentMatch and never enters a pipeline stage, and once its run has ended
\* it is failed with the error message 'No media files found'
C27_EmptyArchiveFails ==
    (Len(entries) = 0 /\ job.status # "none")
       => /\ nBuckets = 0 /\ matches = {} /\ Len(media) = 0
          /\ job.status \in {"uploading", "extracting", "failed"}
          /\ \A r \in RunIds :
                runs[r].pc = "done"
                   => job.status = "failed" /\ job.error = "No media files found"

\* the run of a job with an empty archive has ended
C27_Witness ==
    /\ Len(entries) = 0 /\ job.totalFiles = 0
    /\ \E r \in RunIds : runs[r].pc = "done" /\ runs[r].err = "No media files found"
    /\ job.status = "failed"

\* the Phase A buckets of run x that hold file f
BucketsOf(x, f) == {k \in 1..Len(x.tb) : f \in SeqSet(x.tb[k].files)}

\* the position of comparison k in the order of arrival
Arrival(order, k) == CHOOSE i \in 1..Len(order) : order[i] = k

\* C28: in Phase A every image handled so far is in exactly one bucket and every
\* bucket's representative is its first member; the image just handled joined an
\* existing bucket k only if the comparison with rep_k answered SAME and no SAME
\* reply arrived before it, and it started a new bucket, with itself as
\* representative, exactly when no comparison answered SAME (DIFFERENT or error
\* only); the replies that arrive after the first SAME play no part
C28_PhaseAPlacement ==
    \A r \in RunIds :
        runs[r].pc = "phaseA" =>
            LET x == runs[r]
                imgs == ImageIds(x)
                n == Len(x.lr.replies)
            IN /\ \A i \in 1..Len(imgs) :
                     Cardinality(BucketsOf(x, imgs[i])) = IF i <= x.ci THEN 1 ELSE 0
               /\ \A k \in 1..Len(x.tb) :
                     /\ x.tb[k].rep = x.tb[k].files[1]
                     /\ \A i, j \in 1..Len(x.tb[k].files) :
                           x.tb[k].files[i] = x.tb[k].files[j] => i = j
               /\ x.lr.file # 0 =>
                     /\ x.lr.file = imgs[x.ci]
                     /\ \A k \in BucketsOf(x, x.lr.file) :
                           /\ k <= n =>
                                 /\ x.lr.replies[k] = "same"
                                 /\ \A j \in 1..n :
                                       Arrival(x.lr.order, j) < Arrival(x.lr.order, k)
                                          => x.lr.replies[j] # "same"
                           /\ k > n <=> \A j \in 1..n : x.lr.replies[j] # "same"
                           /\ k > n => x.tb[k] = [rep |-> x.lr.file, files |-> <<x.lr.file>>]

\* an image joined the second bucket, whose SAME reply arrived first, although the
\* first bucket answered SAME too, later
C28_Witness ==
    \E r \in RunIds :
        /\ runs[r].pc = "phaseA" /\ runs[r].lr.file # 0
        /\ Len(runs[r].lr.replies) = 2
        /\ runs[r].lr.replies = <<"same", "same">>
        /\ runs[r].lr.order = <<2, 1>>
        /\ BucketsOf(runs[r], runs[r].lr.file) = {2}

\* the pairs of Phase A buckets joined by a path of SAME answers: the reflexive,
\* symmetric and transitive closure of the relation R over 1..n
RECURSIVE Connected(_, _)
Connected(R, n) ==
    LET step == R \cup {<<i, i>> : i \in 1..n} \cup {<<p[2], p[1]>> : p \in R}
                  \cup {<<pq[1][1], pq[2][2]>> : pq \in {pq \in R \X R : pq[1][2] = pq[2][1]}}
    IN IF step = R THEN R ELSE Connected(step, n)

\* the connected component of Phase A bucket i in the merge recorded in mg
Component(mg, i) ==
    {j \in 1..Len(mg.buckets) : <<i, j>> \in Connected(mg.same, Len(mg.buckets))}

\* the files of the Phase A buckets S
FilesOf(mg, S) == UNION {SeqSet(mg.buckets[i].files) : i \in S}

\* C29: after Phase B the final image buckets are exactly the connected components
\* of the graph on the Phase A buckets with an edge for every pair answered SAME:
\* one final bucket per component, its members the union of the component's
\* members, and every image of the job in exactly one final bucket
C29_FinalBucketsAreComponents ==
    \A r \in RunIds :
        runs[r].pc = "persist" =>
            LET x == runs[r]
                n == Len(x.mg.buckets)
            IN /\ {SeqSet(x.tb[k].files) : k \in 1..Len(x.tb)}
                     = {FilesOf(x.mg, Component(x.mg, i)) : i \in 1..n}
               /\ Len(x.tb) = Cardinality({Component(x.mg, i) : i \in 1..n})
               /\ \A k \in 1..Len(x.tb) :
                     Cardinality(SeqSet(x.tb[k].files)) = Len(x.tb[k].files)
               /\ \A f \in SeqSet(ImageIds(x)) :
                     Cardinality({k \in 1..Len(x.tb) : f \in SeqSet(x.tb[k].files)}) = 1

\* three Phase A buckets whose representatives are pairwise SAME have collapsed
\* into one bucket of three
C29_Witness ==
    \E r \in RunIds :
        /\ runs[r].pc = "persist"
        /\ Len(runs[r].mg.buckets) = 3
        /\ runs[r].mg.same = BucketPairs(3)
        /\ Len(runs[r].tb) = 1 /\ Len(runs[r].tb[1].files) = 3

\* the lowest index of a set of bucket indices
Lowest(S) == CHOOSE i \in S : \A j \in S : i <= j

\* C30: the representative of each bucket the Phase B merge produces is the
\* representative of the lowest-indexed Phase A bucket of its connected component,
\* whatever the answers of the pairwise comparisons
C30_LowestRepresentative ==
    \A r \in RunIds :
        runs[r].pc = "persist" =>
            LET x == runs[r]
            IN \A k \in 1..Len(x.tb) :
                  LET comp == {i \in 1..Len(x.mg.buckets) :
                                 SeqSet(x.mg.buckets[i].files) \subseteq SeqSet(x.tb[k].files)}
                  IN x.tb[k].rep = x.mg.buckets[Lowest(comp)].rep

\* the relation R is symmetric and transitive on the files S
SymmetricTransitive(R, S) ==
    /\ \A a, b \in S : <<a, b>> \in R => <<b, a>> \in R
    /\ \A a, b, c \in S : (a # c /\ <<a, b>> \in R /\ <<b, c>> \in R) => <<a, c>> \in R

\* the files of S that R relates to f, and f itself
ClassOf(R, S, f) == {f} \cup {g \in S : <<f, g>> \in R}

\* C31: when areSameTake answers by a relation that is symmetric and transitive
\* on the job's images and never fails, the final partition of the images is the
\* set of classes of that relation, whatever the order in which the Phase A and
\* Phase B replies arrived: two runs on the same input that differ only in reply
\* timing end with the same partition
C31_PartitionFromOracle ==
    \A r \in RunIds :
        LET imgs == SeqSet(ImageIds(runs[r]))
        IN (/\ runs[r].pc = "persist" /\ oracle.fixed
            /\ SymmetricTransitive(oracle.rel, imgs))
              => {SeqSet(runs[r].tb[k].files) : k \in 1..Len(runs[r].tb)}
                    = {ClassOf(oracle.rel, imgs, f) : f \in imgs}

\* three images, the first and the third the same take: two final buckets
C31_Witness ==
    \E r \in RunIds :
        /\ runs[r].pc = "persist" /\ oracle.fixed
        /\ SeqSet(ImageIds(runs[r])) = {1, 2, 3}
        /\ oracle.rel = {<<1, 3>>, <<3, 1>>}
        /\ {SeqSet(runs[r].tb[k].files) : k \in 1..Len(runs[r].tb)} = {{1, 3}, {2}}

\* the TournamentMatch rows of Bucket b
RowsOf(b) == {m \in matches : m.bucketId = b}

\* C32: a bucket of n >= 2 images whose ranking returned with no failed match has
\* exactly n(n-1)/2 TournamentMatch rows, all of round 1, each between two
\* different members of the bucket, and no unordered pair has two rows
C32_FullRoundRobin ==
    \A r \in RunIds :
        (runs[r].pc = "mark" /\ runs[r].rk.failed = {}) =>
            LET files == RankFiles(runs[r])
                n == Len(files)
                rows == RowsOf(runs[r].rb)
            IN /\ n >= 2
               /\ Cardinality(rows) * 2 = n * (n - 1)
               /\ \A m \in rows :
                     /\ m.round = 1
                     /\ m.media1Id # m.media2Id
                     /\ {m.media1Id, m.media2Id} \subseteq SeqSet(files)
               /\ \A m1, m2 \in rows :
                     {m1.media1Id, m1.media2Id} = {m2.media1Id, m2.media2Id} => m1 = m2
               /\ \A a, b \in SeqSet(files) :
                     a # b => \E m \in rows : {m.media1Id, m.media2Id} = {a, b}

\* a bucket of three images has been ranked without a failure: three rows
C32_Witness ==
    \E r \in RunIds :
        /\ runs[r].pc = "mark" /\ runs[r].rk.failed = {}
        /\ Len(RankFiles(runs[r])) = 3
        /\ Cardinality(RowsOf(runs[r].rb)) = 3

\* C33: for every TournamentMatch the persisted rating changes of media1 and
\* media2 (in points) equal the changes the match applied to their in-memory
\* ratings (kept in hundredths of a point)
C33_PersistedDeltaIsApplied ==
    [][\A r \in RunIds :
          (r <= Len(runs') /\ runs[r].pc = "rank" /\ runs'[r].pc = "rank")
             => \A m \in matches' \ matches :
                   /\ m.media1EloChange * 100
                         = runs'[r].rk.elo[m.media1Id] - runs[r].rk.elo[m.media1Id]
                   /\ m.media2EloChange * 100
                         = runs'[r].rk.elo[m.media2Id] - runs[r].rk.elo[m.media2Id]]_vars

\* a task of the pool can take a step
PoolCanStep ==
    \/ \E b \in 1..Len(tp.bk) :
          \/ tp.bk[b].pc = "start"
          \/ tp.bk[b].run > 0
          \/ tp.bk[b].pc \in {"images", "videos"} /\ tp.bk[b].left = 0
    \/ \A b \in 1..Len(tp.bk) : tp.bk[b].pc = "done"

\* C34: the bounded pools never deadlock: while the ranking stage of an invocation
\* has not ended, completed or failed, some task of tournamentLimit can take a
\* step, for any number of buckets and any bucket sizes
C34_PoolsNeverDeadlock ==
    tp.status = "ranking" => PoolCanStep

\* C35: when the job has completed, resumed or not, every Bucket record has a
\* member, so the Bucket records are the groups of the final partition, and every
\* match row belongs to the Bucket its two files are in, one row per pair
C35_ResumeLeavesNoOrphans ==
    job.status = "completed" =>
       /\ \A b \in 1..nBuckets : \E f \in DOMAIN media : media[f].bucketId = b
       /\ \A m \in matches :
             /\ media[m.media1Id].bucketId = m.bucketId
             /\ media[m.media2Id].bucketId = m.bucketId
       /\ \A m, k \in matches :
             {m.media1Id, m.media2Id} = {k.media1Id, k.media2Id} => m = k

\* run r has ended in the catch block because one of its labeling workers rejected,
\* and the Job record says failed
LabelingFailed(r) ==
    /\ job.status = "failed" /\ runs[r].pc = "done"
    /\ \E f \in 1..Len(runs[r].wk) : runs[r].wk[f].pc = "failed"

\* C36: once the job is failed because a labeling worker raised an error, no other
\* worker of that run issues a describe call (enters describe), writes a label
\* (enters progress) or writes its progress (enters done)
C36_FailedLabelingStopsWorkers ==
    [][\A r \in 1..Len(runs) :
          (LabelingFailed(r) /\ r <= Len(runs'))
             => /\ \A f \in 1..Len(runs[r].wk) :
                      runs'[r].wk[f].pc \in {"describe", "progress", "done"}
                         => runs'[r].wk[f].pc = runs[r].wk[f].pc
                /\ media' = media
                /\ job'.processedFiles = job.processedFiles]_vars

\* C37: within the labeling stage of one run, a step of one of the run's workers
\* never lowers the stored processedFiles, in whatever order the progress writes
\* of the workers reach the record store
C37_ProgressNeverDecreases ==
    [][\A r \in 1..Len(runs) :
          (/\ r <= Len(runs')
           /\ runs[r].pc = "labeling" /\ runs'[r].pc = "labeling"
           /\ runs'[r].wk # runs[r].wk)
             => job'.processedFiles >= job.processedFiles]_vars

\* C38: distinct accepted entries are stored under distinct blob keys: no two
\* MediaFile rows share a key, and the object under a row's key is the content of
\* that row's entry
C38_DistinctBlobKeys ==
    /\ \A a, b \in 1..Len(ks.rows) : a # b => ks.rows[a].s3Key # ks.rows[b].s3Key
    /\ \A a \in 1..Len(ks.rows) :
          [key |-> ks.rows[a].s3Key, body |-> a] \in ks.objs

\* the sum of the ratings elo holds for the files in S
RECURSIVE SumOver(_, _)
SumOver(elo, S) ==
    IF S = {} THEN 0
    ELSE LET f == CHOOSE f \in S : TRUE IN elo[f] + SumOver(elo, S \ {f})

\* the in-memory ratings of the bucket a run is ranking add up to 1000 points a
\* member
SumConserved ==
    \A r \in RunIds :
       r <= Len(runs) /\ runs[r].pc \in {"rank", "mark"}
          => SumOver(runs[r].rk.elo, DOMAIN runs[r].rk.elo)
                = ELO_INITIAL_SCORE * 100 * Cardinality(DOMAIN runs[r].rk.elo)

\* a step that changes the ratings of the bucket being ranked is one recorded
\* match: its winner gains what its loser loses and no other rating changes
ZeroSumStep ==
    \A r \in RunIds :
       (/\ r <= Len(runs) /\ r <= Len(runs')
        /\ runs[r].pc = "rank" /\ runs'[r].pc = "rank" /\ runs'[r].rb = runs[r].rb
        /\ runs'[r].rk.elo # runs[r].rk.elo)
          => LET old == runs[r].rk.elo
                 new == runs'[r].rk.elo
             IN \E m \in matches' :
                   LET w == m.winnerId
                       l == IF m.winnerId = m.media1Id THEN m.media2Id ELSE m.media1Id
                   IN /\ {w, l} \subseteq DOMAIN old /\ DOMAIN new = DOMAIN old
                      /\ new[w] >= old[w] /\ new[l] <= old[l]
                      /\ new[w] - old[w] = old[l] - new[l]
                      /\ \A f \in DOMAIN old \ {w, l} : new[f] = old[f]

RunnerComplete ==
    /\ tr.pc = "complete" /\ IsComplete(tr.comp)
    /\ Cardinality(Active(tr.comp)) = 1

\* the pairings of the round hold every active competitor exactly once, with one
\* bye when their number is odd
RoundPairsEveryActive ==
    tr.pc = "record" =>
       LET m == tr.matchups
           slots == {<<k, c>> \in (1..Len(m)) \X {1, 2} : m[k][c] # Bye}
       IN /\ \A i \in Active(tr.comp) :
                Cardinality({s \in slots : m[s[1]][s[2]] = i}) = 1
          /\ \A s \in slots : m[s[1]][s[2]] \in Active(tr.comp)
          /\ Cardinality({k \in 1..Len(m) : m[k][2] = Bye})
                = Cardinality(Active(tr.comp)) % 2

\* C40: a single-elimination runner with two or more competitors, driven round
\* after round, eventually returns no pairing and is complete with exactly one
\* active competitor; each round pairs every active competitor exactly once
C40_EliminationCompletes == []RoundPairsEveryActive /\ <>RunnerComplete

====
